---- MODULE Spec2Model ----
(***************************************************************************)
(* Model of the VDP backend's AI-guidelines store                          *)
(* (backend/app/services/ai_guidelines_service.py).                        *)
(*                                                                         *)
(* Every HTTP request runs in a database session of its own                *)
(* (backend/app/core/database.py: SessionLocal, autocommit=False,          *)
(* autoflush=False) against PostgreSQL at its default isolation level,     *)
(* READ COMMITTED.  A session's bulk UPDATE takes row locks that are held  *)
(* until the session commits or rolls back; a statement of another session *)
(* that matches a locked row waits.  Rows added with db.add() stay pending *)
(* in the session until the flush that db.commit() performs.  A statement  *)
(* is one atomic step, taken once the rows it matches are free of other    *)
(* sessions' locks, and it reads the rows committed at that moment.        *)
(*                                                                         *)
(* Spec serves the requests one after the other; SpecConcurrent lets the   *)
(* statements of two sessions interleave.  A database call of a handler    *)
(* may raise at any step (handle_exception).                               *)
(*                                                                         *)
(* The model also covers the sliding-window rate limiter                   *)
(* (backend/app/services/rate_limiter.py, SpecRateLimiter) and guidelines  *)
(* generation through the OpenRouter client and its Redis cache            *)
(* (backend/app/services/openrouter_service.py; SpecGenerate, and          *)
(* SpecQuota for an organization's hourly quota).  SpecTenants has         *)
(* organization 1 address its own program, a program of organization 2     *)
(* and a program id that does not exist.                                   *)
(*                                                                         *)
(* The administration endpoints have their own specifications: the         *)
(* calibration answers (services/calibration_service.py; SpecCalibration,  *)
(* and SpecCalibrationConcurrent for two requests in flight), the programs *)
(* (services/program_service.py; SpecPrograms) and the questions of a      *)
(* questionnaire (api/v1/endpoints/questions.py; SpecQuestions, and        *)
(* SpecQuestionLimit for creates at the 50 question limit).  SpecBackends  *)
(* gives the same rate limit checks to a Redis-backed and an in-memory     *)
(* RateLimiter.                                                            *)
(***************************************************************************)
EXTENDS Integers, Sequences, FiniteSets, TLC

VARIABLES
    ai_guidelines,     \* the committed rows of the ai_guidelines table
    pc,                \* the step each session's handler is at
    req,               \* the request each session serves
    loc,               \* save_guidelines' local next_version
    tx,                \* each session's uncommitted bulk updates
    ret,               \* the response each session's handler returned
    pre,               \* the committed rows when the request in flight began
    saves_succeeded,   \* per program, the saves that returned success=True
    requests_started,  \* the requests started so far
    redis_client,      \* RateLimiter.redis_client: "connected" or "None"
    memory_store,      \* RateLimiter._memory_store: key -> list of timestamps
    redis_zsets,       \* the rate limiter's sorted sets in Redis, by key
    redis_expires,     \* the time each sorted set's key expires at (0: never)
    clock,             \* int(time.time())
    rate_limit,        \* the limit the checks are made with
    rate_window,       \* the window_seconds the checks are made with
    rate_log,          \* the check_rate_limit calls made and their results
    calibration_answers, \* the rows of the calibration_answers table
    guidelines_cache,  \* the guidelines cache in Redis: cache key -> JSON
    upstream_requests, \* per organization, the requests sent to OpenRouter
    generated,         \* the last generation call and its response
    calibration_call,  \* the calibration request each session serves
    calibration_requests, \* the calibration requests started so far
    program_table,     \* the rows of the programs table
    program_requests,  \* the program requests served so far
    questions,         \* the rows of the questions table
    question_call,     \* per session, the question request in flight or last served
    question_requests  \* the question requests started so far

store_vars == <<ai_guidelines, pc, req, loc, tx, ret, pre, saves_succeeded,
                requests_started>>

limiter_vars == <<redis_client, memory_store, redis_zsets, redis_expires,
                  clock, rate_limit, rate_window, rate_log>>

generation_vars == <<calibration_answers, guidelines_cache, upstream_requests,
                     generated>>

calibration_vars == <<calibration_call, calibration_requests>>

\* the state of the administration endpoints
program_vars == <<program_table, program_requests>>

question_vars == <<questions, question_call, question_requests>>

admin_vars == <<calibration_vars, program_vars, question_vars>>

vars == <<store_vars, limiter_vars, generation_vars, admin_vars>>

(***************************************************************************)
(* Bounds                                                                  *)
(***************************************************************************)
\* number of requests a behaviour may start
MaxRequests == 3

\* the last second the clock reaches
MaxClock == 4

\* number of question requests a behaviour may start
MaxQuestionRequests == 4

\* number of program requests a behaviour may make
MaxProgramRequests == 4

\* number of calibration requests a behaviour may start
MaxCalibrationRequests == 3

\* number of check_rate_limit calls a behaviour may make
MaxChecks == 4

\* number of requests a behaviour may send to OpenRouter per organization
MaxUpstreamRequests == 2

\* the concurrent requests (one database session each)
Sessions == {"s1", "s2"}

(***************************************************************************)
(* The programs table: program id -> owning organization.                  *)
(***************************************************************************)
programs == (1 :> 1) @@ (2 :> 2)

\* the (program_id, organization_id) pairs requests are made with: an
\* organization on its own program, and organization 1 on a foreign program
RequestTargets == {<<1, 1>>, <<2, 2>>, <<2, 1>>}

\* the pairs of the requests that run concurrently: those of organization 1
ConcurrentTargets == {<<1, 1>>, <<2, 1>>}

\* ProgramFound without the filter on the organization
ProgramFound_any_organization(program_id, organization_id) ==
    program_id \in DOMAIN programs

\* db.query(Program).filter(Program.id == program_id,
\*                          Program.organization_id == organization_id).first()
ProgramFound(program_id, organization_id) ==
    program_id \in DOMAIN programs /\ programs[program_id] = organization_id

(***************************************************************************)
(* Guideline categories (schemas/ai_guidelines.py)                         *)
(***************************************************************************)
ScoringGuide(a, b, c, d) ==
    [range_1_3 |-> a, range_4_5 |-> b, range_6_7 |-> c, range_8_10 |-> d]

GuidelineCategory(section, name, weight, criteria, red_flags, scoring_guide) ==
    [section |-> section, name |-> name, weight |-> weight,
     criteria |-> criteria, red_flags |-> red_flags,
     scoring_guide |-> scoring_guide]

\* ORDER BY section: the collation order of the section keys in use
SectionRank == ("market" :> 1) @@ ("team" :> 2)

\* the category lists requests save; GuidelinesB lists its categories in an
\* order that differs from the section order
GuidelinesA ==
    << GuidelineCategory("team", "Team", 3, <<"c1">>, <<"f1">>,
                         ScoringGuide("low", "below", "above", "high")) >>

GuidelinesB ==
    << GuidelineCategory("team", "Team Assessment", 2, <<"c1", "c2">>, <<"f2">>,
                         ScoringGuide("weak", "fair", "good", "great")),
       GuidelineCategory("market", "Market", 1, <<"c3">>, <<"f1", "f3">>,
                         ScoringGuide("low", "below", "above", "high")) >>

GuidelineInputs == {GuidelinesA, GuidelinesB}

Range(f) == {f[i] : i \in DOMAIN f}

\* GeneratedGuidelines.validate_categories: TRUE when the list is accepted
validate_categories(v) ==
    /\ Len(v) # 0
    /\ \A i, j \in DOMAIN v : v[i].section = v[j].section => i = j

(***************************************************************************)
(* Rows of the ai_guidelines table (models/ai_guideline.py) and the        *)
(* queries of the service, as functions of the set of rows a session sees. *)
(***************************************************************************)
\* criteria_json with the "4-5" band filled from the 6-7 text
criteria_json_band_mixup(category) ==
    [name |-> category.name,
     criteria |-> category.criteria,
     red_flags |-> category.red_flags,
     scoring_guide |->
         ("1-3" :> category.scoring_guide.range_1_3) @@
         ("4-5" :> category.scoring_guide.range_6_7) @@
         ("6-7" :> category.scoring_guide.range_6_7) @@
         ("8-10" :> category.scoring_guide.range_8_10)]

\* save_guidelines' criteria_json of one category: the JSON column
criteria_json(category) ==
    [name |-> category.name,
     criteria |-> category.criteria,
     red_flags |-> category.red_flags,
     scoring_guide |->
         ("1-3" :> category.scoring_guide.range_1_3) @@
         ("4-5" :> category.scoring_guide.range_4_5) @@
         ("6-7" :> category.scoring_guide.range_6_7) @@
         ("8-10" :> category.scoring_guide.range_8_10)]

\* guideline_record built without is_active: the column default (True)
guideline_record_default_active(program_id, category, is_active, next_version) ==
    [id |-> 0,
     program_id |-> program_id,
     section |-> category.section,
     weight |-> category.weight,
     criteria |-> criteria_json(category),
     is_active |-> TRUE,
     version |-> next_version]

\* AIGuideline(program_id=, section=, weight=, criteria=, is_active=,
\* version=): one pending record, primary key not assigned yet (id 0)
guideline_record(program_id, category, is_active, next_version) ==
    [id |-> 0,
     program_id |-> program_id,
     section |-> category.section,
     weight |-> category.weight,
     criteria |-> criteria_json(category),
     is_active |-> is_active,
     version |-> next_version]

\* the loop "for category in guidelines.categories": saved_guidelines
saved_guidelines(program_id, guidelines, is_active, next_version) ==
    [i \in DOMAIN guidelines |->
        guideline_record(program_id, guidelines[i], is_active, next_version)]

\* the versions of a program that have rows
VersionsOf(rows, program_id) ==
    {r.version : r \in {q \in rows : q.program_id = program_id}}

Max(S) == CHOOSE m \in S : \A n \in S : n <= m

\* latest_version = ...order_by(version.desc()).first();
\* next_version = (latest_version.version + 1) if latest_version else 1
next_version_of(rows, program_id) ==
    IF VersionsOf(rows, program_id) = {}
    THEN 1
    ELSE Max(VersionsOf(rows, program_id)) + 1

\* active_ids filtering on is_active == False
active_ids_inverted(rows, program_id) ==
    {r.id : r \in {q \in rows : q.program_id = program_id /\ ~q.is_active}}

\* filter(program_id == program_id, is_active == True): ids of matched rows
active_ids(rows, program_id) ==
    {r.id : r \in {q \in rows : q.program_id = program_id /\ q.is_active}}

\* version_ids filtering on version >= version
version_ids_at_least(rows, program_id, version) ==
    {r.id : r \in {q \in rows : q.program_id = program_id /\ q.version >= version}}

\* filter(program_id == program_id, version == version): ids of matched rows
version_ids(rows, program_id, version) ==
    {r.id : r \in {q \in rows : q.program_id = program_id /\ q.version = version}}

\* version_exists without the version filter
version_exists_any(rows, program_id, version) ==
    {r \in rows : r.program_id = program_id} # {}

\* version_exists = ...filter(program_id, version).first()
version_exists(rows, program_id, version) ==
    version_ids(rows, program_id, version) # {}

\* the versions of a program that have an active row
ActiveVersions(rows, program_id) ==
    {r.version : r \in {q \in rows : q.program_id = program_id /\ q.is_active}}

(***************************************************************************)
(* get_active_guidelines                                                   *)
(***************************************************************************)
RECURSIVE OrderBySection(_)
\* .order_by(AIGuideline.section).all()
OrderBySection(rows) ==
    IF rows = {}
    THEN << >>
    ELSE LET first == CHOOSE r \in rows :
                         \A q \in rows : SectionRank[r.section] <= SectionRank[q.section]
         IN  <<first>> \o OrderBySection(rows \ {first})

\* ScoringGuide parsed from the stored dict through its aliases
ParseScoringGuide(d) ==
    ScoringGuide(d["1-3"], d["4-5"], d["6-7"], d["8-10"])

\* GuidelineCategory(section=record.section, name=criteria_data.get("name"),
\* weight=record.weight, criteria=..., red_flags=..., scoring_guide=...)
category_of_record(record) ==
    GuidelineCategory(record.section,
                      record.criteria.name,
                      record.weight,
                      record.criteria.criteria,
                      record.criteria.red_flags,
                      ParseScoringGuide(record.criteria.scoring_guide))

NoGuidelines == [found |-> FALSE, version |-> 0, categories |-> << >>]

\* the SavedGuidelines get_active_guidelines returns, NoGuidelines for None
get_active_guidelines(rows, program_id, organization_id) ==
    LET active_records ==
            OrderBySection({r \in rows : r.program_id = program_id /\ r.is_active})
        categories ==
            [i \in DOMAIN active_records |-> category_of_record(active_records[i])]
    IN  IF ~ProgramFound(program_id, organization_id) THEN NoGuidelines
        ELSE IF Len(active_records) = 0 THEN NoGuidelines
        ELSE IF ~validate_categories(categories) THEN NoGuidelines
        ELSE [found |-> TRUE,
              version |-> active_records[1].version,
              categories |-> categories]

(***************************************************************************)
(* get_guidelines_history                                                  *)
(***************************************************************************)
RECURSIVE OrderByVersionDescSection(_)
\* .order_by(AIGuideline.version.desc(), AIGuideline.section).all()
OrderByVersionDescSection(rows) ==
    IF rows = {}
    THEN << >>
    ELSE LET first == CHOOSE r \in rows :
                         \A q \in rows :
                            \/ r.version > q.version
                            \/ /\ r.version = q.version
                               /\ SectionRank[r.section] <= SectionRank[q.section]
         IN  <<first>> \o OrderByVersionDescSection(rows \ {first})

\* history_versions listing the records' versions last record first
history_versions_reversed(records) ==
    LET firsts == SelectSeq([i \in DOMAIN records |-> i],
                            LAMBDA i : \A j \in 1..(i - 1) :
                                          records[j].version # records[i].version)
    IN  [k \in DOMAIN firsts |-> records[firsts[Len(firsts) + 1 - k]].version]

\* the keys of guidelines_by_version in insertion order: each version of
\* the records, in the order of its first record
history_versions(records) ==
    LET firsts == SelectSeq([i \in DOMAIN records |-> i],
                            LAMBDA i : \A j \in 1..(i - 1) :
                                          records[j].version # records[i].version)
    IN  [k \in DOMAIN firsts |-> records[firsts[k]].version]

\* active_version: the version of the first record with is_active set
\* (0 for None)
history_active_version(records) ==
    LET active == SelectSeq(records, LAMBDA record : record.is_active)
    IN  IF Len(active) = 0 THEN 0 ELSE active[1].version

\* the SavedGuidelines built for one key of guidelines_by_version:
\* 'metadata' is the version's first record, 'categories' its records
history_entry(records, version) ==
    LET data == SelectSeq(records, LAMBDA record : record.version = version)
    IN  [version |-> version,
         is_active |-> data[1].is_active,
         categories |-> [i \in DOMAIN data |-> category_of_record(data[i])]]

\* the GuidelinesListResponse get_guidelines_history returns
get_guidelines_history(rows, program_id, organization_id) ==
    LET guidelines_records ==
            OrderByVersionDescSection({r \in rows : r.program_id = program_id})
        versions == history_versions(guidelines_records)
        saved_guidelines_list ==
            [k \in DOMAIN versions |-> history_entry(guidelines_records, versions[k])]
    IN  IF ~ProgramFound(program_id, organization_id)
        THEN [success |-> FALSE, guidelines |-> << >>, active_version |-> 0,
              error |-> "Program not found or access denied"]
        ELSE IF Len(guidelines_records) = 0
        THEN [success |-> TRUE, guidelines |-> << >>, active_version |-> 0,
              error |-> ""]
        ELSE IF \E k \in DOMAIN saved_guidelines_list :
                   ~validate_categories(saved_guidelines_list[k].categories)
        THEN [success |-> FALSE, guidelines |-> << >>, active_version |-> 0,
              error |-> "Failed to get guidelines"]
        ELSE [success |-> TRUE, guidelines |-> saved_guidelines_list,
              active_version |-> history_active_version(guidelines_records),
              error |-> ""]

(***************************************************************************)
(* get_guidelines_status                                                   *)
(***************************************************************************)
\* GuidelinesCacheStats(total_entries=0, valid_entries=0, expired_entries=0)
NoCacheStats == [total_entries |-> 0, valid_entries |-> 0, expired_entries |-> 0]

\* the GuidelinesStatusResponse get_guidelines_status returns, cache_stats
\* being what openrouter_service.get_cache_stats() reports
get_guidelines_status(rows, program_id, organization_id, cache_stats) ==
    LET active == {r \in rows : r.program_id = program_id /\ r.is_active}
    IN  IF ~ProgramFound(program_id, organization_id)
        THEN [success |-> FALSE, has_active_guidelines |-> FALSE,
              active_version |-> 0, total_versions |-> 0,
              cache_stats |-> NoCacheStats,
              error |-> "Program not found or access denied"]
        ELSE [success |-> TRUE, has_active_guidelines |-> active # {},
              active_version |-> IF active = {} THEN 0
                                 ELSE (CHOOSE r \in active : TRUE).version,
              total_versions |-> Cardinality(VersionsOf(rows, program_id)),
              cache_stats |-> cache_stats,
              error |-> ""]

(***************************************************************************)
(* Database sessions                                                       *)
(***************************************************************************)
\* tx[s]: the uncommitted bulk updates of session s: ids of rows whose
\* is_active it has set to False (off) and to True (on)
NoUpdates == [off |-> {}, on |-> {}]

\* ApplyUpdates deleting the deactivated rows instead of updating them
ApplyUpdates_deleting(rows, t) ==
    {[r EXCEPT !.is_active = IF r.id \in t.on THEN TRUE ELSE r.is_active] :
        r \in {q \in rows : q.id \notin t.off}}

\* the rows as updated by the bulk updates t
ApplyUpdates(rows, t) ==
    {[r EXCEPT !.is_active = IF r.id \in t.on THEN TRUE
                             ELSE IF r.id \in t.off THEN FALSE
                             ELSE r.is_active] : r \in rows}

\* what the queries of session s see: the committed rows, with its own
\* uncommitted updates
View(s) == ApplyUpdates(ai_guidelines, tx[s])

\* ids of the rows other sessions hold a row lock on
LockedByOthers(s) ==
    UNION {tx[t].off \cup tx[t].on : t \in Sessions \ {s}}

\* INSERT of the pending records at flush: the primary key comes from the
\* table's sequence (no row is ever deleted, so the ids in use are 1..n)
Insert(rows, records) ==
    rows \cup {[records[i] EXCEPT !.id = Cardinality(rows) + i] : i \in DOMAIN records}

\* query(AIGuideline).filter(...).update({"is_active": False}) on ids
UpdateInactive(t, ids) == [off |-> t.off \cup ids, on |-> t.on \ ids]

\* an update to is_active = True that matches no row
UpdateActive_no_row(t, ids) == t

\* query(AIGuideline).filter(...).update({"is_active": True}) on ids
UpdateActive(t, ids) == [off |-> t.off \ ids, on |-> t.on \cup ids]

(***************************************************************************)
(* Requests and responses                                                  *)
(***************************************************************************)
NoRequest ==
    [op |-> "none", program_id |-> 0, organization_id |-> 0,
     guidelines |-> << >>, is_active |-> FALSE, version |-> 0]

NoResponse == [success |-> FALSE, error |-> "", version |-> 0]

\* GuidelinesSaveResponse / GuidelinesActivationResponse; version is the
\* saved guidelines' version or activated_version
Success(version) == [success |-> TRUE, error |-> "", version |-> version]

Failure(error) == [success |-> FALSE, error |-> error, version |-> 0]

InFlight(s) == pc[s] \notin {"idle", "done"}

(***************************************************************************)
(* The rate limiter (backend/app/services/rate_limiter.py): a sliding      *)
(* window over the timestamps of the requests recorded for a key, kept in  *)
(* a Redis sorted set or, when the connection attempt failed, in memory.   *)
(***************************************************************************)
\* the keys check_rate_limit is called with
Keys == {"org:1:guidelines", "org:2:guidelines"}

\* the limits and the windows (seconds) the checks are made with
Limits == {1, 2}

Windows == {2, 3}

\* check_rate_limit's default limit and window_seconds
default_limit == 10

default_window_seconds == 3600

\* what can fail while _redis_rate_limit talks to Redis: pipe.execute(),
\* the zrem or the zrange of the denied branch
Faults == {"none", "pipeline", "zrem", "zrange"}

\* RateLimiter.__init__: redis_client is set when REDIS_URL is set and the
\* ping succeeds; _memory_store is created only by the except branch
RateLimiter(redis_url_set, ping_succeeds) ==
    [redis_client |-> IF redis_url_set /\ ping_succeeds
                      THEN "connected" ELSE "None",
     memory_store |-> IF redis_url_set /\ ~ping_succeeds
                      THEN [created |-> TRUE, lists |-> [k \in Keys |-> << >>]]
                      ELSE [created |-> FALSE, lists |-> [k \in Keys |-> << >>]]]

\* str(current_time), the member name of a recorded request
str(current_time) == ToString(current_time)

\* ZREMRANGEBYSCORE key min max
zremrangebyscore(zset, min, max) ==
    {m \in zset : ~(min <= m.score /\ m.score <= max)}

\* ZCARD key
zcard(zset) == Cardinality(zset)

\* ZADD key score member: a member already in the set only gets the score
zadd(zset, member, score) ==
    {m \in zset : m.member # member} \cup {[member |-> member, score |-> score]}

\* ZREM key member
zrem(zset, member) == {m \in zset : m.member # member}

\* the scores returned by ZRANGE key 0 0 WITHSCORES
zrange_first_scores(zset) ==
    {m.score : m \in {q \in zset : \A r \in zset : q.score <= r.score}}

\* the sorted set of a key as a command finds it: gone once the key expired
live_zset(zset, expires, now) ==
    IF expires # 0 /\ now >= expires THEN {} ELSE zset

Max0(n) == IF n < 0 THEN 0 ELSE n

RECURSIVE SeqMin(_)
\* min(timestamps) of a non-empty list
SeqMin(timestamps) ==
    IF Len(timestamps) = 1
    THEN timestamps[1]
    ELSE LET rest == SeqMin(Tail(timestamps))
         IN  IF timestamps[1] <= rest THEN timestamps[1] ELSE rest

\* the dict check_rate_limit returns; raised: it raised instead;
\* failed: the except branch built it (fail open)
RateResult(allowed, remaining, reset_time) ==
    [allowed |-> allowed, remaining |-> remaining, reset_time |-> reset_time,
     raised |-> FALSE, failed |-> FALSE]

FailOpen(limit, window_seconds, current_time) ==
    [allowed |-> TRUE, remaining |-> limit - 1,
     reset_time |-> current_time + window_seconds,
     raised |-> FALSE, failed |-> TRUE]

Raised ==
    [allowed |-> FALSE, remaining |-> 0, reset_time |-> 0,
     raised |-> TRUE, failed |-> FALSE]

\* _redis_rate_limit on the key's sorted set zset: the sorted set and the
\* expiry time it leaves, and the result
redis_rate_limit(zset, expires, limit, window_seconds, current_time, fault) ==
    LET window_start == current_time - window_seconds
        purged == zremrangebyscore(zset, 0, window_start)
        current_count == zcard(purged)
        piped == zadd(purged, str(current_time), current_time)
        new_expires == current_time + window_seconds
        removed == zrem(piped, str(current_time))
        oldest == zrange_first_scores(removed)
    IN  IF fault = "pipeline"
        THEN [zset |-> zset, expires |-> expires,
              result |-> FailOpen(limit, window_seconds, current_time)]
        ELSE IF current_count < limit
        THEN [zset |-> piped, expires |-> new_expires,
              result |-> RateResult(TRUE, Max0(limit - current_count - 1),
                                    current_time + window_seconds)]
        ELSE IF fault = "zrem"
        THEN [zset |-> piped, expires |-> new_expires,
              result |-> FailOpen(limit, window_seconds, current_time)]
        ELSE IF fault = "zrange"
        THEN [zset |-> removed, expires |-> new_expires,
              result |-> FailOpen(limit, window_seconds, current_time)]
        ELSE [zset |-> removed, expires |-> new_expires,
              result |-> RateResult(FALSE, 0,
                            IF oldest = {}
                            THEN current_time + window_seconds
                            ELSE (CHOOSE score \in oldest : TRUE) + window_seconds)]

\* _memory_rate_limit on the key's list of timestamps
memory_rate_limit(timestamps, limit, window_seconds, current_time) ==
    LET window_start == current_time - window_seconds
        kept == SelectSeq(timestamps, LAMBDA timestamp : timestamp > window_start)
        current_count == Len(kept)
    IN  IF current_count < limit
        THEN [list |-> Append(kept, current_time),
              result |-> RateResult(TRUE, Max0(limit - current_count - 1),
                                    current_time + window_seconds)]
        ELSE [list |-> kept,
              result |-> RateResult(FALSE, 0,
                            IF Len(kept) = 0
                            THEN current_time + window_seconds
                            ELSE SeqMin(kept) + window_seconds)]

\* the state of a RateLimiter constructed at second 1, before any check
InitLimiter(redis_url_set, ping_succeeds, limit, window_seconds) ==
    /\ redis_client = RateLimiter(redis_url_set, ping_succeeds).redis_client
    /\ memory_store = RateLimiter(redis_url_set, ping_succeeds).memory_store
    /\ redis_zsets = [k \in Keys |-> {}]
    /\ redis_expires = [k \in Keys |-> 0]
    /\ clock = 1
    /\ rate_limit = limit
    /\ rate_window = window_seconds
    /\ rate_log = << >>

(***************************************************************************)
(* Guidelines generation: generate_guidelines_from_calibration             *)
(* (ai_guidelines_service.py) reads the program's calibration answers and  *)
(* asks the OpenRouter client for guidelines; the client                   *)
(* (openrouter_service.py, OpenRouterService.generate_ai_guidelines) looks *)
(* in its Redis cache, checks the rate limit, sends the request, parses    *)
(* the reply and caches it; the service validates what it gets back.       *)
(***************************************************************************)
\* the calibration question answered in the model and the choices given
QuestionKeys == {"startup_stage_preference"}

ChoiceValues == {"seed", "series_a"}

\* the program whose calibration is answered
CalibratedPrograms == {1}

\* the models generation is requested with
Models == {"claude-3.5-sonnet", "gpt-4o"}

\* OpenRouterService._rate_limit_requests
rate_limit_requests == 10

\* one entry of the "categories" list of a reply; weight is the JSON number
\* in hundredths (0.6 is 60, 3 is 300)
reply_category(section, weight) ==
    [section |-> section, name |-> "Team", weight |-> weight,
     criteria |-> <<"c1">>, red_flags |-> <<"f1">>,
     scoring_guide |-> ("1-3" :> "low") @@ ("4-5" :> "below") @@
                       ("6-7" :> "above") @@ ("8-10" :> "high")]

\* what the POST to /chat/completions comes back with: an HTTP error,
\* content that holds no JSON, or a JSON object with a "categories" list
HttpError == [kind |-> "http_error", categories |-> << >>]

NotJson == [kind |-> "not_json", categories |-> << >>]

JsonReply(categories) == [kind |-> "json", categories |-> categories]

\* no request was sent
NoReply == [kind |-> "none", categories |-> << >>]

\* a reply that GeneratedGuidelines accepts: one category of weight 3
AcceptedReply == JsonReply(<<reply_category("team", 300)>>)

\* replies with the weights 3; 1.0; 0.6 and 0.4; 0.5 and 0.3
Replies ==
    {HttpError, NotJson, AcceptedReply,
     JsonReply(<<reply_category("team", 100)>>),
     JsonReply(<<reply_category("team", 60), reply_category("market", 40)>>),
     JsonReply(<<reply_category("team", 50), reply_category("market", 30)>>)}

\* what can go wrong with the cache in one call: the client has no Redis
\* connection, GET raises a RedisError, SETEX raises a RedisError
CacheFaults == {"none", "no_client", "get_error", "setex_error"}

\* weight: int = Field(..., ge=1, le=10): a whole number from 1 to 10
weight_valid(weight) ==
    weight % 100 = 0 /\ 100 <= weight /\ weight <= 1000

\* GuidelineCategory(**category): the fields of one category validated
category_valid(category) ==
    /\ weight_valid(category.weight)
    /\ Len(category.criteria) >= 1
    /\ Len(category.red_flags) >= 1

\* the GuidelineCategory parsed from an entry of a reply
parsed_category(category) ==
    GuidelineCategory(category.section, category.name, category.weight \div 100,
                      category.criteria, category.red_flags,
                      ParseScoringGuide(category.scoring_guide))

\* GeneratedGuidelines(**generated_data) succeeds
generated_data_valid(generated_data) ==
    /\ \A i \in DOMAIN generated_data.categories :
          category_valid(generated_data.categories[i])
    /\ validate_categories(generated_data.categories)

\* calibration_data[answer.question_key] = answer.answer_value
calibration_data_of(answers) ==
    [question_key \in {a.question_key : a \in answers} |->
        (CHOOSE a \in answers : a.question_key = question_key).answer_value]

\* _get_cache_key: the hash of the answers (keys sorted) and the model,
\* which is the same for two calls exactly when their content is
get_cache_key(calibration_answers_dict, model) ==
    [calibration_answers |-> calibration_answers_dict, model |-> model]

NoKey == [calibration_answers |-> << >>, model |-> "none"]

\* _get_cached_guidelines: the cached JSON, NoReply for None
get_cached_guidelines(cache, cache_key, fault) ==
    IF fault = "no_client" THEN NoReply
    ELSE IF fault = "get_error" THEN NoReply
    ELSE IF cache_key \in DOMAIN cache THEN cache[cache_key]
    ELSE NoReply

\* _cache_guidelines: the cache it leaves, and whether it raised.  Its
\* except clause names json.JSONEncodeError, which the json module does
\* not have: when setex raises, evaluating the clause raises AttributeError
cache_guidelines(cache, cache_key, guidelines, fault) ==
    IF fault = "no_client" THEN [cache |-> cache, raised |-> FALSE]
    ELSE IF fault = "setex_error" THEN [cache |-> cache, raised |-> TRUE]
    ELSE [cache |-> [k \in DOMAIN cache \cup {cache_key} |->
                        IF k = cache_key THEN guidelines ELSE cache[k]],
          raised |-> FALSE]

\* _check_rate_limit: "For now, we'll assume rate limit is okay"
check_organization_rate_limit(requests_sent) == TRUE

\* OpenRouterService.generate_ai_guidelines: the JSON it returns or the
\* error it raises, the cache it leaves, whether it sent the request
generate_ai_guidelines(requests_sent, answers, model, cache, reply, fault) ==
    LET cache_key == get_cache_key(answers, model)
        cached_guidelines == get_cached_guidelines(cache, cache_key, fault)
        stored == cache_guidelines(cache, cache_key, reply, fault)
    IN  IF cached_guidelines # NoReply
        THEN [raised |-> "", guidelines |-> cached_guidelines,
              cache |-> cache, sent |-> FALSE]
        ELSE IF ~check_organization_rate_limit(requests_sent)
        THEN [raised |-> "Rate limit exceeded. Please try again later.",
              guidelines |-> NoReply, cache |-> cache, sent |-> FALSE]
        ELSE IF reply.kind = "http_error"
        THEN [raised |-> "OpenRouter API error",
              guidelines |-> NoReply, cache |-> cache, sent |-> TRUE]
        ELSE IF reply.kind = "not_json"
        THEN [raised |-> "Unexpected error: AI response was not valid JSON",
              guidelines |-> NoReply, cache |-> cache, sent |-> TRUE]
        ELSE IF stored.raised
        THEN [raised |-> "Unexpected error",
              guidelines |-> NoReply, cache |-> stored.cache, sent |-> TRUE]
        ELSE [raised |-> "", guidelines |-> reply,
              cache |-> stored.cache, sent |-> TRUE]

\* GuidelinesGenerationResponse
GenerationResponse(success, guidelines, model_used, cached, error) ==
    [success |-> success, guidelines |-> guidelines, model_used |-> model_used,
     cached |-> cached, error |-> error]

GenerationFailure(error) ==
    GenerationResponse(FALSE, << >>, "", FALSE, error)

\* no generation call has been made
NoGeneration ==
    [program_id |-> 0, organization_id |-> 0, cache_key |-> NoKey,
     fault |-> "none", reply |-> NoReply, sent |-> FALSE,
     previous_key |-> NoKey, response |-> GenerationFailure("")]

\* the generation state after construction: no calibration answers, an
\* empty cache, no request sent
InitGeneration ==
    /\ calibration_answers = {}
    /\ guidelines_cache = << >>
    /\ upstream_requests = [organization_id \in {1, 2} |-> 0]
    /\ generated = NoGeneration

(***************************************************************************)
(* Calibration answers: CalibrationService (calibration_service.py) behind *)
(* the endpoints of api/v1/endpoints/calibration.py.  Each request runs in *)
(* its own database session; every commit publishes the request's change.  *)
(***************************************************************************)
\* CALIBRATION_QUESTIONS: the entries of the multiple choice questions
\* "startup_stage_preference" and "team_assessment_priority"
CALIBRATION_QUESTIONS ==
    ("startup_stage_preference" :>
        [type |-> "multiple_choice",
         options |-> {"pre_seed", "seed", "series_a", "stage_agnostic"}]) @@
    ("team_assessment_priority" :>
        [type |-> "multiple_choice",
         options |-> {"solo_founders_ok", "team_preferred", "team_required",
                      "domain_expertise"}])

\* get_question_by_key returns None
NoQuestion == [type |-> "none", options |-> {}]

\* get_question_by_key
get_question_by_key(question_key) ==
    IF question_key \in DOMAIN CALIBRATION_QUESTIONS
    THEN CALIBRATION_QUESTIONS[question_key]
    ELSE NoQuestion

\* _validate_answer_format for a multiple choice question: the ValueError
\* it raises, "" when it returns
validate_answer_format(question, answer_value) ==
    IF question.type = "multiple_choice" /\ answer_value \notin question.options
    THEN "Invalid choice"
    ELSE ""

\* CalibrationAnswerCreate
CalibrationAnswerCreate(question_key, answer_value) ==
    [question_key |-> question_key, answer_value |-> answer_value]

\* the answers requests arrive with: two choices of the first question, a
\* value that is not among its options, a choice of the second question,
\* a key that is not in the catalog
AnswerInputs ==
    {CalibrationAnswerCreate("startup_stage_preference", "seed"),
     CalibrationAnswerCreate("startup_stage_preference", "series_a"),
     CalibrationAnswerCreate("startup_stage_preference", "team_required"),
     CalibrationAnswerCreate("team_assessment_priority", "team_required"),
     CalibrationAnswerCreate("no_such_question", "seed")}

\* the answer lists of batch requests
AnswerBatches == {<<a, b>> : a \in AnswerInputs, b \in AnswerInputs}

\* CalibrationAnswerBatch.validate_unique_questions: no question key
\* occurs twice in the batch
validate_unique_questions(v) ==
    \A i, j \in DOMAIN v : v[i].question_key = v[j].question_key => i = j

\* the rows the query of create_or_update_answer and delete_answer matches
matching_answers(rows, program_id, question_key) ==
    {a \in rows : a.program_id = program_id /\ a.question_key = question_key}

\* the primary key the table gives the next inserted row
next_answer_id(rows) == Max({a.id : a \in rows} \cup {0}) + 1

\* a session that serves no calibration request
NoCall ==
    [pc |-> "idle", op |-> "none", program_id |-> 0, answers_data |-> << >>,
     position |-> 0, existing_answer |-> 0, responses |-> 0, raised |-> "",
     before |-> {}]

InitCalibration ==
    /\ calibration_call = [s \in Sessions |-> NoCall]
    /\ calibration_requests = 0

(***************************************************************************)
(* Programs: ProgramService (program_service.py) behind the endpoints of   *)
(* api/v1/endpoints/programs.py                                            *)
(***************************************************************************)
\* the names programs are given
ProgramNames == {"Spring batch", "Fall batch"}

\* the organizations that manage programs
Organizations == {1, 2}

\* ProgramCreate
ProgramCreate(name, is_active) == [name |-> name, is_active |-> is_active]

\* ProgramUpdate: the fields that were set in the request
\* (dict(exclude_unset=True)) and their values
ProgramUpdate(fields, name, is_active) ==
    [fields |-> fields, name |-> name, is_active |-> is_active]

\* the update requests: any subset of name and is_active set
ProgramUpdates ==
    {ProgramUpdate(fields, name, is_active) :
        fields \in SUBSET {"name", "is_active"},
        name \in ProgramNames, is_active \in BOOLEAN}

\* the primary key the table gives the next inserted program
next_program_id(rows) == Max({r.id : r \in rows} \cup {0}) + 1

\* the duplicate check of create_program: an active program of the
\* organization with the name
existing_program(rows, organization_id, name) ==
    {r \in rows : r.organization_id = organization_id /\ r.name = name
                  /\ r.is_active}

\* the program a request addresses: the row with the id in the caller's
\* organization
program_of(rows, program_id, organization_id) ==
    {r \in rows : r.id = program_id /\ r.organization_id = organization_id}

\* ProgramService.create_program: the rows it leaves
program_service_create_program(rows, program_data, organization_id) ==
    IF existing_program(rows, organization_id, program_data.name) # {}
    THEN rows
    ELSE rows \cup {[id |-> next_program_id(rows),
                     name |-> program_data.name,
                     is_active |-> program_data.is_active,
                     organization_id |-> organization_id]}

\* ProgramService.update_program: the rows it leaves
program_service_update_program(rows, program_id, program_data, organization_id) ==
    LET program == program_of(rows, program_id, organization_id)
        renamed == \E r \in program :
                      "name" \in program_data.fields /\ program_data.name # r.name
        taken == {r \in existing_program(rows, organization_id, program_data.name) :
                     r.id # program_id}
    IN  IF program = {} THEN rows
        ELSE IF renamed /\ taken # {} THEN rows
        ELSE {IF r \in program
              THEN [r EXCEPT
                      !.name = IF "name" \in program_data.fields
                               THEN program_data.name ELSE @,
                      !.is_active = IF "is_active" \in program_data.fields
                                    THEN program_data.is_active ELSE @]
              ELSE r : r \in rows}

\* ProgramService.delete_program: the rows it leaves
program_service_delete_program(rows, program_id, organization_id, hard_delete) ==
    LET program == program_of(rows, program_id, organization_id)
    IN  IF hard_delete
        THEN rows \ program
        ELSE {IF r \in program THEN [r EXCEPT !.is_active = FALSE] ELSE r :
                 r \in rows}

InitPrograms ==
    /\ program_table = {}
    /\ program_requests = 0

(***************************************************************************)
(* Questions of a questionnaire: the endpoints of                          *)
(* api/v1/endpoints/questions.py, which keep each question's order_index   *)
(***************************************************************************)
\* "if question_count >= 50": the questions a questionnaire may hold
max_questions == 50

\* the questionnaires and the organization of each one's program
questionnaires == (1 :> 1) @@ (2 :> 1) @@ (3 :> 2)

\* the questionnaire lookup of the endpoints: the id exists and its
\* program is the caller's organization's
QuestionnaireFound(questionnaire_id, organization_id) ==
    /\ questionnaire_id \in DOMAIN questionnaires
    /\ questionnaires[questionnaire_id] = organization_id

\* the rows of a questionnaire
questions_of(rows, questionnaire_id) ==
    {r \in rows : r.questionnaire_id = questionnaire_id}

\* query(Question).filter(questionnaire_id == ...).count()
question_count(rows, questionnaire_id) ==
    Cardinality(questions_of(rows, questionnaire_id))

\* the primary key the table gives the next inserted question
next_question_id(rows) == Max({r.id : r \in rows} \cup {0}) + 1

\* the sequences without repetition over a set of ids
Orderings(ids) ==
    {order \in UNION {[1..n -> ids] : n \in 0..Cardinality(ids)} :
        \A i, j \in DOMAIN order : order[i] = order[j] => i = j}

\* get_questions: the ids in the order of order_by(Question.order_index);
\* rows with the same order_index come in any order, so this is the set
\* of the lists the query can return
get_questions(rows, questionnaire_id) ==
    LET listed == questions_of(rows, questionnaire_id)
        index(id) == (CHOOSE r \in listed : r.id = id).order_index
    IN  {order \in Orderings({r.id : r \in listed}) :
            /\ Len(order) = Cardinality(listed)
            /\ \A i, j \in DOMAIN order :
                  i < j => index(order[i]) <= index(order[j])}

\* create_question after its checks: the questions from order_index on
\* are shifted by one if a question has that order_index, and the new
\* question is added with it
insert_question(rows, questionnaire_id, order_index) ==
    LET existing_question ==
            {r \in questions_of(rows, questionnaire_id) :
                r.order_index = order_index}
        shifted ==
            IF existing_question # {}
            THEN {IF r.questionnaire_id = questionnaire_id
                     /\ r.order_index >= order_index
                  THEN [r EXCEPT !.order_index = @ + 1] ELSE r : r \in rows}
            ELSE rows
    IN  shifted \cup {[id |-> next_question_id(rows),
                       questionnaire_id |-> questionnaire_id,
                       order_index |-> order_index]}

\* an update_question that shifts no other question
move_question_alone(rows, db_question, order_index) ==
    {IF r.id = db_question.id
     THEN [r EXCEPT !.order_index = order_index] ELSE r : r \in rows}

\* update_question with an order_index other than the question's: the
\* index is capped at count - 1, the questions between the old and the
\* new place are shifted by one, the question gets the index
move_question(rows, db_question, order_index) ==
    LET max_order == question_count(rows, db_question.questionnaire_id) - 1
        new_index == IF order_index > max_order THEN max_order ELSE order_index
    IN  {IF r.id = db_question.id
         THEN [r EXCEPT !.order_index = new_index]
         ELSE IF r.questionnaire_id # db_question.questionnaire_id THEN r
         ELSE IF /\ new_index > db_question.order_index
                 /\ r.order_index > db_question.order_index
                 /\ r.order_index <= new_index
         THEN [r EXCEPT !.order_index = @ - 1]
         ELSE IF /\ new_index <= db_question.order_index
                 /\ r.order_index >= new_index
                 /\ r.order_index < db_question.order_index
         THEN [r EXCEPT !.order_index = @ + 1]
         ELSE r : r \in rows}

\* delete_question: the row is deleted and the questions after it are
\* shifted by one
remove_question(rows, db_question) ==
    {IF r.questionnaire_id = db_question.questionnaire_id
        /\ r.order_index > db_question.order_index
     THEN [r EXCEPT !.order_index = @ - 1] ELSE r :
        r \in rows \ {db_question}}

\* a reorder that numbers the questions from 1
set_order_from_one(rows, question_order) ==
    {IF \E k \in DOMAIN question_order : question_order[k] = r.id
     THEN [r EXCEPT !.order_index =
              CHOOSE k \in DOMAIN question_order : question_order[k] = r.id]
     ELSE r : r \in rows}

\* reorder_questions: for new_index, question_id in
\* enumerate(question_order): order_index = new_index
set_order(rows, question_order) ==
    {IF \E k \in DOMAIN question_order : question_order[k] = r.id
     THEN [r EXCEPT !.order_index =
              (CHOOSE k \in DOMAIN question_order : question_order[k] = r.id) - 1]
     ELSE r : r \in rows}

\* the questions of the list that belong to the questionnaire
\* (existing_questions)
existing_questions(rows, questionnaire_id, question_order) ==
    {r \in questions_of(rows, questionnaire_id) : r.id \in Range(question_order)}

\* a session that has served no question request
NoQuestionCall ==
    [pc |-> "idle", op |-> "none", questionnaire_id |-> 0, question_id |-> 0,
     order_index |-> 0, question_order |-> << >>, before |-> {},
     status |-> 0]

InitQuestions ==
    /\ questions = {}
    /\ question_call = [s \in Sessions |-> NoQuestionCall]
    /\ question_requests = 0

InitAdmin == InitCalibration /\ InitPrograms /\ InitQuestions

InitStore ==
    /\ ai_guidelines = {}
    /\ pc = [s \in Sessions |-> "idle"]
    /\ req = [s \in Sessions |-> NoRequest]
    /\ loc = [s \in Sessions |-> 0]
    /\ tx = [s \in Sessions |-> NoUpdates]
    /\ ret = [s \in Sessions |-> NoResponse]
    /\ pre = [s \in Sessions |-> {}]
    /\ saves_succeeded = [p \in DOMAIN programs |-> 0]
    /\ requests_started = 0

\* the guidelines store is empty; the rate limiter is connected to Redis
Init ==
    /\ InitStore
    /\ InitLimiter(TRUE, TRUE, default_limit, default_window_seconds)
    /\ InitGeneration
    /\ InitAdmin

\* the handler returns response; the request's session is closed
Return(s, response) ==
    /\ pc' = [pc EXCEPT ![s] = "done"]
    /\ ret' = [ret EXCEPT ![s] = response]
    /\ tx' = [tx EXCEPT ![s] = NoUpdates]
    /\ loc' = [loc EXCEPT ![s] = 0]
    /\ pre' = [pre EXCEPT ![s] = {}]
    /\ UNCHANGED <<req, requests_started>>
    /\ UNCHANGED <<limiter_vars, generation_vars, admin_vars>>

\* the handler moves on to step next
Goto(s, next) ==
    /\ pc' = [pc EXCEPT ![s] = next]
    /\ UNCHANGED <<req, ret, pre, requests_started>>
    /\ UNCHANGED <<limiter_vars, generation_vars, admin_vars>>

(***************************************************************************)
(* POST /save -> AIGuidelinesService.save_guidelines                       *)
(***************************************************************************)
BeginSave(s, targets) ==
    /\ ~InFlight(s)
    /\ requests_started < MaxRequests
    /\ \E target \in targets, g \in GuidelineInputs, a \in BOOLEAN :
          req' = [req EXCEPT ![s] =
                     [op |-> "save", program_id |-> target[1],
                      organization_id |-> target[2], guidelines |-> g,
                      is_active |-> a, version |-> 0]]
    /\ pc' = [pc EXCEPT ![s] = "save_program"]
    /\ ret' = [ret EXCEPT ![s] = NoResponse]
    /\ pre' = [pre EXCEPT ![s] = ai_guidelines]
    /\ requests_started' = requests_started + 1
    /\ UNCHANGED <<ai_guidelines, loc, tx, saves_succeeded>>
    /\ UNCHANGED <<limiter_vars, generation_vars, admin_vars>>

\* verify program belongs to organization
save_program(s) ==
    /\ pc[s] = "save_program"
    /\ IF ProgramFound(req[s].program_id, req[s].organization_id)
       THEN Goto(s, "save_latest") /\ UNCHANGED <<loc, tx>>
       ELSE Return(s, Failure("Program not found or access denied"))
    /\ UNCHANGED <<ai_guidelines, saves_succeeded>>

\* get next version number
save_latest(s) ==
    /\ pc[s] = "save_latest"
    /\ loc' = [loc EXCEPT ![s] = next_version_of(View(s), req[s].program_id)]
    /\ Goto(s, IF req[s].is_active THEN "save_deactivate" ELSE "save_commit")
    /\ UNCHANGED <<ai_guidelines, tx, saves_succeeded>>

\* if activating, deactivate all existing guidelines
save_deactivate(s) ==
    /\ pc[s] = "save_deactivate"
    /\ LET ids == active_ids(View(s), req[s].program_id)
       IN  /\ ids \cap LockedByOthers(s) = {}
           /\ tx' = [tx EXCEPT ![s] = UpdateInactive(tx[s], ids)]
    /\ Goto(s, "save_commit")
    /\ UNCHANGED <<ai_guidelines, loc, saves_succeeded>>

\* db.add of every category's record, then db.commit(): flush and commit
save_commit(s) ==
    /\ pc[s] = "save_commit"
    /\ ai_guidelines' =
          Insert(ApplyUpdates(ai_guidelines, tx[s]),
                 saved_guidelines(req[s].program_id, req[s].guidelines,
                                  req[s].is_active, loc[s]))
    /\ tx' = [tx EXCEPT ![s] = NoUpdates]
    /\ Goto(s, "save_refresh")
    /\ UNCHANGED <<loc, saves_succeeded>>

\* refresh the records, build the response, return success
save_refresh(s) ==
    /\ pc[s] = "save_refresh"
    /\ Return(s, Success(loc[s]))
    /\ saves_succeeded' =
          [saves_succeeded EXCEPT ![req[s].program_id] = @ + 1]
    /\ UNCHANGED ai_guidelines

(***************************************************************************)
(* POST /activate -> AIGuidelinesService.activate_guidelines_version       *)
(***************************************************************************)
BeginActivate(s, targets) ==
    /\ ~InFlight(s)
    /\ requests_started < MaxRequests
    /\ \E target \in targets :
       \E v \in 1..next_version_of(ai_guidelines, target[1]) :
          req' = [req EXCEPT ![s] =
                     [op |-> "activate", program_id |-> target[1],
                      organization_id |-> target[2], guidelines |-> << >>,
                      is_active |-> FALSE, version |-> v]]
    /\ pc' = [pc EXCEPT ![s] = "activate_program"]
    /\ ret' = [ret EXCEPT ![s] = NoResponse]
    /\ pre' = [pre EXCEPT ![s] = ai_guidelines]
    /\ requests_started' = requests_started + 1
    /\ UNCHANGED <<ai_guidelines, loc, tx, saves_succeeded>>
    /\ UNCHANGED <<limiter_vars, generation_vars, admin_vars>>

\* verify program belongs to organization
activate_program(s) ==
    /\ pc[s] = "activate_program"
    /\ IF ProgramFound(req[s].program_id, req[s].organization_id)
       THEN Goto(s, "activate_exists") /\ UNCHANGED <<loc, tx>>
       ELSE Return(s, Failure("Program not found or access denied"))
    /\ UNCHANGED <<ai_guidelines, saves_succeeded>>

\* check if version exists
activate_exists(s) ==
    /\ pc[s] = "activate_exists"
    /\ IF version_exists(View(s), req[s].program_id, req[s].version)
       THEN Goto(s, "activate_deactivate") /\ UNCHANGED <<loc, tx>>
       ELSE Return(s, Failure("Version not found"))
    /\ UNCHANGED <<ai_guidelines, saves_succeeded>>

\* deactivate all existing guidelines
activate_deactivate(s) ==
    /\ pc[s] = "activate_deactivate"
    /\ LET ids == active_ids(View(s), req[s].program_id)
       IN  /\ ids \cap LockedByOthers(s) = {}
           /\ tx' = [tx EXCEPT ![s] = UpdateInactive(tx[s], ids)]
    /\ Goto(s, "activate_set")
    /\ UNCHANGED <<ai_guidelines, loc, saves_succeeded>>

\* activate the specified version
activate_set(s) ==
    /\ pc[s] = "activate_set"
    /\ LET ids == version_ids(View(s), req[s].program_id, req[s].version)
       IN  /\ ids \cap LockedByOthers(s) = {}
           /\ tx' = [tx EXCEPT ![s] = UpdateActive(tx[s], ids)]
    /\ Goto(s, "activate_commit")
    /\ UNCHANGED <<ai_guidelines, loc, saves_succeeded>>

\* db.commit(), return success
activate_commit(s) ==
    /\ pc[s] = "activate_commit"
    /\ ai_guidelines' = ApplyUpdates(ai_guidelines, tx[s])
    /\ Return(s, Success(req[s].version))
    /\ UNCHANGED saves_succeeded

(***************************************************************************)
(* except Exception: db.rollback(), return success=False.  A database      *)
(* call of either handler raises (connection lost, statement error).       *)
(***************************************************************************)
handle_exception(s) ==
    /\ InFlight(s)
    /\ Return(s, Failure(IF req[s].op = "save"
                         THEN "Failed to save guidelines"
                         ELSE "Failed to activate version"))
    /\ UNCHANGED <<ai_guidelines, saves_succeeded>>

Step(s) ==
    \/ save_program(s)
    \/ save_latest(s)
    \/ save_deactivate(s)
    \/ save_commit(s)
    \/ save_refresh(s)
    \/ activate_program(s)
    \/ activate_exists(s)
    \/ activate_deactivate(s)
    \/ activate_set(s)
    \/ activate_commit(s)
    \/ handle_exception(s)

\* requests executed one after the other, each in a new session
Next ==
    \/ BeginSave("s1", RequestTargets)
    \/ BeginActivate("s1", RequestTargets)
    \/ Step("s1")

Spec == Init /\ [][Next]_vars

\* requests of organization 1, each in its own session, interleave
NextConcurrent ==
    \E s \in Sessions :
        \/ BeginSave(s, ConcurrentTargets)
        \/ BeginActivate(s, ConcurrentTargets)
        \/ Step(s)

SpecConcurrent == Init /\ [][NextConcurrent]_vars

(***************************************************************************)
(* RateLimiter.check_rate_limit and the passing of time                    *)
(***************************************************************************)
\* check_rate_limit(key, rate_limit, rate_window) at the current second
check_rate_limit(key, fault) ==
    /\ Len(rate_log) < MaxChecks
    /\ redis_client = "None" => fault = "none"
    /\ IF redis_client = "connected"
       THEN LET checked ==
                    redis_rate_limit(live_zset(redis_zsets[key],
                                               redis_expires[key], clock),
                                     IF clock >= redis_expires[key]
                                     THEN 0 ELSE redis_expires[key],
                                     rate_limit, rate_window, clock, fault)
            IN  /\ redis_zsets' = [redis_zsets EXCEPT ![key] = checked.zset]
                /\ redis_expires' = [redis_expires EXCEPT ![key] = checked.expires]
                /\ rate_log' = Append(rate_log,
                                  [key |-> key, time |-> clock,
                                   result |-> checked.result])
                /\ UNCHANGED memory_store
       ELSE IF memory_store.created
       THEN LET checked ==
                    memory_rate_limit(memory_store.lists[key], rate_limit,
                                      rate_window, clock)
            IN  /\ memory_store' =
                      [memory_store EXCEPT !.lists[key] = checked.list]
                /\ rate_log' = Append(rate_log,
                                  [key |-> key, time |-> clock,
                                   result |-> checked.result])
                /\ UNCHANGED <<redis_zsets, redis_expires>>
       ELSE \* self._memory_store does not exist: AttributeError
            /\ rate_log' = Append(rate_log,
                              [key |-> key, time |-> clock, result |-> Raised])
            /\ UNCHANGED <<memory_store, redis_zsets, redis_expires>>
    /\ UNCHANGED <<redis_client, clock, rate_limit, rate_window>>
    /\ UNCHANGED <<store_vars, generation_vars, admin_vars>>

\* a second passes
Tick ==
    /\ clock < MaxClock
    /\ clock' = clock + 1
    /\ UNCHANGED <<redis_client, memory_store, redis_zsets, redis_expires,
                   rate_limit, rate_window, rate_log>>
    /\ UNCHANGED <<store_vars, generation_vars, admin_vars>>

\* a RateLimiter however its construction went, and the limit and window
\* its caller uses
InitRateLimiter ==
    /\ InitStore
    /\ \E redis_url_set, ping_succeeds \in BOOLEAN :
       \E limit \in Limits, window_seconds \in Windows :
          InitLimiter(redis_url_set, ping_succeeds, limit, window_seconds)
    /\ InitGeneration
    /\ InitAdmin

NextRateLimiter ==
    \/ \E key \in Keys, fault \in Faults : check_rate_limit(key, fault)
    \/ Tick

SpecRateLimiter == InitRateLimiter /\ [][NextRateLimiter]_vars

(***************************************************************************)
(* Two RateLimiter instances given the same calls: one connected to Redis  *)
(* (its sorted sets are redis_zsets), one that fell back to the in-memory  *)
(* store (memory_store).                                                   *)
(***************************************************************************)
InitBackends ==
    /\ InitStore
    /\ \E limit \in Limits, window_seconds \in Windows :
          /\ rate_limit = limit
          /\ rate_window = window_seconds
    /\ redis_client = RateLimiter(TRUE, TRUE).redis_client
    /\ memory_store = RateLimiter(TRUE, FALSE).memory_store
    /\ redis_zsets = [k \in Keys |-> {}]
    /\ redis_expires = [k \in Keys |-> 0]
    /\ clock = 1
    /\ rate_log = << >>
    /\ InitGeneration
    /\ InitAdmin

\* check_rate_limit(key, limit, window_seconds) called on both instances in
\* the same second, Redis answering every command
check_rate_limit_both(key) ==
    /\ Len(rate_log) < MaxChecks
    /\ LET redis_checked ==
               redis_rate_limit(live_zset(redis_zsets[key],
                                          redis_expires[key], clock),
                                IF clock >= redis_expires[key]
                                THEN 0 ELSE redis_expires[key],
                                rate_limit, rate_window, clock, "none")
           memory_checked ==
               memory_rate_limit(memory_store.lists[key], rate_limit,
                                 rate_window, clock)
       IN  /\ redis_zsets' = [redis_zsets EXCEPT ![key] = redis_checked.zset]
           /\ redis_expires' =
                 [redis_expires EXCEPT ![key] = redis_checked.expires]
           /\ memory_store' =
                 [memory_store EXCEPT !.lists[key] = memory_checked.list]
           /\ rate_log' = Append(rate_log,
                             [key |-> key, time |-> clock,
                              result |-> redis_checked.result,
                              memory_result |-> memory_checked.result])
    /\ UNCHANGED <<redis_client, clock, rate_limit, rate_window>>
    /\ UNCHANGED <<store_vars, generation_vars, admin_vars>>

NextBackends ==
    \/ \E key \in Keys : check_rate_limit_both(key)
    \/ Tick

SpecBackends == InitBackends /\ [][NextBackends]_vars

(***************************************************************************)
(* POST /generate -> generate_guidelines_from_calibration, and the         *)
(* calibration answers it reads (CalibrationService)                       *)
(***************************************************************************)
\* create_or_update_answer with a question key of the catalog and one of
\* the question's choices
create_or_update_answer(program_id, question_key, answer_value) ==
    /\ LET existing_answer ==
               {a \in calibration_answers :
                   a.program_id = program_id /\ a.question_key = question_key}
       IN  IF existing_answer # {}
           THEN calibration_answers' =
                   {IF a \in existing_answer
                    THEN [a EXCEPT !.answer_value = answer_value]
                    ELSE a : a \in calibration_answers}
           ELSE calibration_answers' =
                   calibration_answers \cup
                      {[id |-> Cardinality(calibration_answers) + 1,
                        program_id |-> program_id,
                        question_key |-> question_key,
                        answer_value |-> answer_value]}
    /\ UNCHANGED <<guidelines_cache, upstream_requests, generated>>
    /\ UNCHANGED <<store_vars, limiter_vars, admin_vars>>

\* a generation that skips the test for calibration answers
no_calibration_data_ignored(answers) == FALSE

\* "if not calibration_answers:" the query found no row for the program
no_calibration_data(answers) == answers = {}

\* generate_guidelines_from_calibration(db, program_id, organization_id,
\* model), OpenRouter answering reply if asked, the cache failing as fault
generate_guidelines_from_calibration(program_id, organization_id, model, reply, fault) ==
    LET answers == {a \in calibration_answers : a.program_id = program_id}
        calibration_data == calibration_data_of(answers)
        cache_key == get_cache_key(calibration_data, model)
        generated_data ==
            generate_ai_guidelines(upstream_requests[organization_id],
                                   calibration_data, model, guidelines_cache,
                                   reply, fault)
        call == [program_id |-> program_id,
                 organization_id |-> organization_id,
                 cache_key |-> NoKey, fault |-> "none", reply |-> NoReply,
                 sent |-> FALSE, previous_key |-> NoKey,
                 response |-> GenerationFailure("")]
        asked == [call EXCEPT !.cache_key = cache_key, !.fault = fault,
                              !.sent = generated_data.sent,
                              !.reply = IF generated_data.sent
                                        THEN reply ELSE NoReply,
                              !.previous_key =
                                  IF generated.response.success
                                     /\ generated.fault = "none"
                                  THEN generated.cache_key ELSE NoKey]
    IN  IF ~ProgramFound(program_id, organization_id)
        THEN /\ generated' =
                   [call EXCEPT !.response =
                       GenerationFailure("Program not found or access denied")]
             /\ UNCHANGED <<guidelines_cache, upstream_requests>>
        ELSE IF no_calibration_data(answers)
        THEN /\ generated' =
                   [call EXCEPT !.response =
                       GenerationFailure("No calibration data found. Please complete calibration first.")]
             /\ UNCHANGED <<guidelines_cache, upstream_requests>>
        ELSE /\ guidelines_cache' = generated_data.cache
             /\ upstream_requests' =
                   [upstream_requests EXCEPT ![organization_id] =
                       IF generated_data.sent THEN @ + 1 ELSE @]
             /\ generated' =
                   IF generated_data.raised # ""
                   THEN [asked EXCEPT !.response =
                            GenerationFailure(generated_data.raised)]
                   ELSE IF ~generated_data_valid(generated_data.guidelines)
                   THEN [asked EXCEPT !.response =
                            GenerationFailure("validation error")]
                   ELSE [asked EXCEPT !.response =
                            GenerationResponse(TRUE,
                               [i \in DOMAIN generated_data.guidelines.categories |->
                                   parsed_category(generated_data.guidelines.categories[i])],
                               \* model_used=model or "claude-3.5-sonnet",
                               \* cached=False
                               model, FALSE, "")]

\* POST /generate by organization 1 on its program, a foreign program or
\* a program that does not exist
GenerateTargets == {<<1, 1>>, <<2, 1>>, <<3, 1>>}

Generate(replies, faults) ==
    /\ \E target \in GenerateTargets, model \in Models :
       \E reply \in replies, fault \in faults :
          generate_guidelines_from_calibration(target[1], target[2], model,
                                               reply, fault)
    /\ UNCHANGED calibration_answers
    /\ UNCHANGED <<store_vars, limiter_vars, admin_vars>>

Calibrate ==
    \E program_id \in CalibratedPrograms, question_key \in QuestionKeys :
    \E answer_value \in ChoiceValues :
        create_or_update_answer(program_id, question_key, answer_value)

\* generation with any reply and any cache fault
NextGenerate ==
    \/ upstream_requests[1] < MaxUpstreamRequests /\ Generate(Replies, CacheFaults)
    \/ Calibrate

SpecGenerate == Init /\ [][NextGenerate]_vars

\* generation until organization 1 is one request past its quota, OpenRouter
\* failing or answering with the same guidelines
NextQuota ==
    \/ /\ upstream_requests[1] <= rate_limit_requests
       /\ Generate({HttpError, AcceptedReply}, {"none"})
    \/ Calibrate

SpecQuota == Init /\ [][NextQuota]_vars

(***************************************************************************)
(* Organization 1 using the guidelines operations on its own program, on   *)
(* program 2 of organization 2 and on a program id that does not exist.    *)
(***************************************************************************)
\* organization 2 has answered the calibration of its program 2 and has
\* saved GuidelinesA for it as the active version 1
InitTenants ==
    /\ ai_guidelines = Insert({}, saved_guidelines(2, GuidelinesA, TRUE, 1))
    /\ pc = [s \in Sessions |-> "idle"]
    /\ req = [s \in Sessions |-> NoRequest]
    /\ loc = [s \in Sessions |-> 0]
    /\ tx = [s \in Sessions |-> NoUpdates]
    /\ ret = [s \in Sessions |-> NoResponse]
    /\ pre = [s \in Sessions |-> {}]
    /\ saves_succeeded = [p \in DOMAIN programs |-> IF p = 2 THEN 1 ELSE 0]
    /\ requests_started = 0
    /\ InitLimiter(TRUE, TRUE, default_limit, default_window_seconds)
    /\ calibration_answers =
          {[id |-> 1, program_id |-> 2,
            question_key |-> "startup_stage_preference",
            answer_value |-> "seed"]}
    /\ guidelines_cache = << >>
    /\ upstream_requests = [organization_id \in {1, 2} |-> 0]
    /\ generated = NoGeneration
    /\ InitAdmin

NextTenants ==
    \/ BeginSave("s1", GenerateTargets)
    \/ BeginActivate("s1", GenerateTargets)
    \/ Step("s1")
    \/ upstream_requests[1] < MaxUpstreamRequests
          /\ Generate({AcceptedReply}, {"none"})

SpecTenants == InitTenants /\ [][NextTenants]_vars

(***************************************************************************)
(* The calibration endpoints, one action per database round trip           *)
(***************************************************************************)
\* what a calibration step leaves alone
CalibrationFrame ==
    /\ UNCHANGED <<guidelines_cache, upstream_requests, generated>>
    /\ UNCHANGED <<store_vars, limiter_vars, program_vars, question_vars>>

\* organization 1 calling for its program 1 and for the foreign program 2
CalibrationTargets == {<<1, 1>>, <<2, 1>>}

\* the endpoint's get_organization_program check and the call of the
\* service: op is "answer" (POST answers), "batch" (POST answers/batch) or
\* "delete" (DELETE answers/{question_key})
BeginCalibration(s, op, answers_data) ==
    /\ calibration_call[s].pc = "idle"
    /\ calibration_requests < MaxCalibrationRequests
    /\ calibration_requests' = calibration_requests + 1
    /\ \E target \in CalibrationTargets :
          LET call == [NoCall EXCEPT !.op = op, !.program_id = target[1],
                                     !.answers_data = answers_data,
                                     !.position = 1,
                                     !.before = calibration_answers]
          IN  calibration_call' =
                [calibration_call EXCEPT ![s] =
                    IF op = "batch" /\ ~validate_unique_questions(answers_data)
                    THEN [call EXCEPT !.pc = "done",
                            !.raised = "Duplicate question keys not allowed in batch submission"]
                    ELSE IF ~ProgramFound(target[1], target[2])
                    THEN [call EXCEPT !.pc = "done",
                                      !.raised = "Program not found"]
                    ELSE [call EXCEPT !.pc = IF op = "delete"
                                             THEN "delete_query" ELSE "query"]]
    /\ UNCHANGED calibration_answers
    /\ CalibrationFrame

\* the exception a failure of create_or_update_answer leaves the request
\* with: batch_create_or_update_answers wraps it
answer_error(op, error) ==
    IF op = "batch" THEN "Error processing answer: " \o error ELSE error

\* create_or_update_answer up to its query: the question key and the
\* answer format are validated, then the existing answer is looked up
answer_query(s) ==
    /\ calibration_call[s].pc = "query"
    /\ LET call == calibration_call[s]
           answer_data == call.answers_data[call.position]
           question == get_question_by_key(answer_data.question_key)
           invalid == validate_answer_format(question, answer_data.answer_value)
           found == matching_answers(calibration_answers, call.program_id,
                                     answer_data.question_key)
       IN  IF question = NoQuestion
           THEN calibration_call' =
                  [calibration_call EXCEPT ![s] =
                      [call EXCEPT !.pc = "done",
                          !.raised = answer_error(call.op, "Invalid question key")]]
           ELSE IF invalid # ""
           THEN calibration_call' =
                  [calibration_call EXCEPT ![s] =
                      [call EXCEPT !.pc = "done",
                          !.raised = answer_error(call.op, invalid)]]
           ELSE IF found = {}
           THEN calibration_call' =
                  [calibration_call EXCEPT ![s] =
                      [call EXCEPT !.pc = "commit", !.existing_answer = 0]]
           \* .first() of an unordered query: any of the matching rows
           ELSE \E a \in found :
                  calibration_call' =
                    [calibration_call EXCEPT ![s] =
                        [call EXCEPT !.pc = "commit", !.existing_answer = a.id]]
    /\ UNCHANGED <<calibration_answers, calibration_requests>>
    /\ CalibrationFrame

\* create_or_update_answer from its query on: the existing row is updated
\* or a new row is added, and the session commits.  The UPDATE of a row
\* that was deleted meanwhile matches no row (StaleDataError).
answer_commit(s) ==
    /\ calibration_call[s].pc = "commit"
    /\ LET call == calibration_call[s]
           answer_data == call.answers_data[call.position]
           next == IF call.position = Len(call.answers_data)
                   THEN [call EXCEPT !.pc = "done", !.responses = @ + 1]
                   ELSE [call EXCEPT !.pc = "query", !.responses = @ + 1,
                                     !.position = @ + 1]
       IN  IF call.existing_answer # 0
           THEN IF \E a \in calibration_answers : a.id = call.existing_answer
                THEN /\ calibration_answers' =
                          {IF a.id = call.existing_answer
                           THEN [a EXCEPT !.answer_value = answer_data.answer_value]
                           ELSE a : a \in calibration_answers}
                     /\ calibration_call' = [calibration_call EXCEPT ![s] = next]
                ELSE /\ calibration_call' =
                          [calibration_call EXCEPT ![s] =
                              [call EXCEPT !.pc = "done",
                                  !.raised = answer_error(call.op, "StaleDataError")]]
                     /\ UNCHANGED calibration_answers
           ELSE /\ calibration_answers' =
                     calibration_answers \cup
                        {[id |-> next_answer_id(calibration_answers),
                          program_id |-> call.program_id,
                          question_key |-> answer_data.question_key,
                          answer_value |-> answer_data.answer_value]}
                /\ calibration_call' = [calibration_call EXCEPT ![s] = next]
    /\ UNCHANGED calibration_requests
    /\ CalibrationFrame

\* delete_answer up to its query; the endpoint answers 404 when the
\* service returns False
delete_query(s) ==
    /\ calibration_call[s].pc = "delete_query"
    /\ LET call == calibration_call[s]
           found == matching_answers(calibration_answers, call.program_id,
                                     call.answers_data[1].question_key)
       IN  IF found = {}
           THEN calibration_call' =
                  [calibration_call EXCEPT ![s] =
                      [call EXCEPT !.pc = "done", !.raised = "No answer found"]]
           ELSE \E a \in found :
                  calibration_call' =
                    [calibration_call EXCEPT ![s] =
                        [call EXCEPT !.pc = "delete_commit",
                                     !.existing_answer = a.id]]
    /\ UNCHANGED <<calibration_answers, calibration_requests>>
    /\ CalibrationFrame

\* delete_answer: db.delete(answer); db.commit()
delete_commit(s) ==
    /\ calibration_call[s].pc = "delete_commit"
    /\ calibration_answers' =
          {a \in calibration_answers : a.id # calibration_call[s].existing_answer}
    /\ calibration_call' =
          [calibration_call EXCEPT ![s] = [@ EXCEPT !.pc = "done",
                                                    !.responses = 1]]
    /\ UNCHANGED calibration_requests
    /\ CalibrationFrame

\* the response is sent and the session is free for the next request
ReturnCalibration(s) ==
    /\ calibration_call[s].pc = "done"
    /\ calibration_call' = [calibration_call EXCEPT ![s] = NoCall]
    /\ UNCHANGED <<calibration_answers, calibration_requests>>
    /\ CalibrationFrame

CalibrationStep(s, batches) ==
    \/ \E answer_data \in AnswerInputs :
          BeginCalibration(s, "answer", <<answer_data>>)
    \/ \E answers_data \in batches :
          BeginCalibration(s, "batch", answers_data)
    \/ \E question_key \in DOMAIN CALIBRATION_QUESTIONS :
          BeginCalibration(s, "delete",
                           <<CalibrationAnswerCreate(question_key, "")>>)
    \/ answer_query(s)
    \/ answer_commit(s)
    \/ delete_query(s)
    \/ delete_commit(s)
    \/ ReturnCalibration(s)

\* calibration requests served one after the other
NextCalibration == CalibrationStep("s1", AnswerBatches)

SpecCalibration == Init /\ [][NextCalibration]_vars

\* the batches of concurrent requests: two accepted answers, and an
\* accepted answer followed by one with an unknown key
ConcurrentBatches ==
    {<<CalibrationAnswerCreate("startup_stage_preference", "seed"),
       CalibrationAnswerCreate("team_assessment_priority", "team_required")>>,
     <<CalibrationAnswerCreate("startup_stage_preference", "series_a"),
       CalibrationAnswerCreate("no_such_question", "seed")>>}

\* two calibration requests in flight at a time
NextCalibrationConcurrent ==
    \E s \in Sessions : CalibrationStep(s, ConcurrentBatches)

SpecCalibrationConcurrent == Init /\ [][NextCalibrationConcurrent]_vars

(***************************************************************************)
(* The program endpoints, served one after the other                       *)
(***************************************************************************)
\* a program request: the table changes as the service call leaves it
ProgramRequest(rows) ==
    /\ program_requests < MaxProgramRequests
    /\ program_requests' = program_requests + 1
    /\ program_table' = rows
    /\ UNCHANGED <<store_vars, limiter_vars, generation_vars>>
    /\ UNCHANGED <<calibration_vars, question_vars>>

\* the program ids requests name: those in use and the next one
ProgramIds == 1..MaxProgramRequests

\* POST /programs/
create_program_endpoint ==
    \E name \in ProgramNames, is_active \in BOOLEAN :
    \E organization_id \in Organizations :
        ProgramRequest(program_service_create_program(
                          program_table, ProgramCreate(name, is_active),
                          organization_id))

\* PUT /programs/{program_id}
update_program_endpoint ==
    \E program_id \in ProgramIds, program_data \in ProgramUpdates :
    \E organization_id \in Organizations :
        ProgramRequest(program_service_update_program(
                          program_table, program_id, program_data,
                          organization_id))

\* DELETE /programs/{program_id}
delete_program_endpoint ==
    \E program_id \in ProgramIds, hard_delete \in BOOLEAN :
    \E organization_id \in Organizations :
        ProgramRequest(program_service_delete_program(
                          program_table, program_id, organization_id,
                          hard_delete))

\* POST /programs/{program_id}/activate: update_program with
\* ProgramUpdate(is_active=True)
activate_program_endpoint ==
    \E program_id \in ProgramIds, organization_id \in Organizations :
        ProgramRequest(program_service_update_program(
                          program_table, program_id,
                          ProgramUpdate({"is_active"}, "", TRUE),
                          organization_id))

\* POST /programs/{program_id}/duplicate: get_program, then create_program
\* with the new name and is_active=True
duplicate_program_endpoint ==
    \E program_id \in ProgramIds, new_name \in ProgramNames :
    \E organization_id \in Organizations :
        ProgramRequest(
            IF program_of(program_table, program_id, organization_id) = {}
            THEN program_table
            ELSE program_service_create_program(
                    program_table, ProgramCreate(new_name, TRUE),
                    organization_id))

NextPrograms ==
    \/ create_program_endpoint
    \/ update_program_endpoint
    \/ delete_program_endpoint
    \/ activate_program_endpoint
    \/ duplicate_program_endpoint

SpecPrograms == Init /\ [][NextPrograms]_vars

(***************************************************************************)
(* The question endpoints.  create_question reads the number of questions  *)
(* and later inserts; the other endpoints are one step each.               *)
(***************************************************************************)
\* what a question request leaves alone
QuestionFrame ==
    /\ UNCHANGED <<store_vars, limiter_vars, generation_vars>>
    /\ UNCHANGED <<calibration_vars, program_vars>>

\* session s starts a request: the call as it begins
QuestionCall(s, op, questionnaire_id, question_id, order_index, question_order) ==
    [pc |-> "idle", op |-> op, questionnaire_id |-> questionnaire_id,
     question_id |-> question_id, order_index |-> order_index,
     question_order |-> question_order, before |-> questions, status |-> 0]

\* session s ends its request with the HTTP status and the rows it commits
QuestionResponse(s, call, status, rows) ==
    /\ question_call' =
          [question_call EXCEPT ![s] = [call EXCEPT !.pc = "idle",
                                                    !.status = status]]
    /\ questions' = rows

QuestionStart(s) ==
    /\ question_call[s].pc = "idle"
    /\ question_requests < MaxQuestionRequests
    /\ question_requests' = question_requests + 1

\* create_question up to the 50 question limit: the questionnaire lookup
\* and the count
create_question_count(s, questionnaire_id, order_index) ==
    /\ QuestionStart(s)
    /\ LET call == QuestionCall(s, "create", questionnaire_id, 0, order_index, << >>)
       IN  IF ~QuestionnaireFound(questionnaire_id, 1)
           THEN QuestionResponse(s, call, 404, questions)
           ELSE IF question_count(questions, questionnaire_id) >= max_questions
           THEN QuestionResponse(s, call, 400, questions)
           ELSE /\ question_call' =
                     [question_call EXCEPT ![s] = [call EXCEPT !.pc = "insert"]]
                /\ UNCHANGED questions
    /\ QuestionFrame

\* create_question from the order_index check to the commit
create_question_insert(s) ==
    /\ question_call[s].pc = "insert"
    /\ QuestionResponse(s, question_call[s], 200,
                        insert_question(questions,
                                        question_call[s].questionnaire_id,
                                        question_call[s].order_index))
    /\ UNCHANGED question_requests
    /\ QuestionFrame

\* update_question; order_index -1 stands for a request that does not
\* set order_index
update_question(s, question_id, order_index) ==
    /\ QuestionStart(s)
    /\ LET db_question ==
               {r \in questions :
                   r.id = question_id /\ QuestionnaireFound(r.questionnaire_id, 1)}
           call == QuestionCall(s, "update",
                      IF db_question = {} THEN 0
                      ELSE (CHOOSE r \in db_question : TRUE).questionnaire_id,
                      question_id, order_index, << >>)
       IN  IF db_question = {}
           THEN QuestionResponse(s, call, 404, questions)
           ELSE LET q == CHOOSE r \in db_question : TRUE
                IN  IF order_index # -1 /\ order_index # q.order_index
                    THEN QuestionResponse(s, call, 200,
                                          move_question(questions, q, order_index))
                    ELSE QuestionResponse(s, call, 200, questions)
    /\ QuestionFrame

\* delete_question
delete_question(s, question_id) ==
    /\ QuestionStart(s)
    /\ LET db_question ==
               {r \in questions :
                   r.id = question_id /\ QuestionnaireFound(r.questionnaire_id, 1)}
           call == QuestionCall(s, "delete",
                      IF db_question = {} THEN 0
                      ELSE (CHOOSE r \in db_question : TRUE).questionnaire_id,
                      question_id, 0, << >>)
       IN  IF db_question = {}
           THEN QuestionResponse(s, call, 404, questions)
           ELSE QuestionResponse(s, call, 200,
                   remove_question(questions, CHOOSE r \in db_question : TRUE))
    /\ QuestionFrame

\* reorder_questions with a list of distinct ids (validate_unique_ids)
reorder_questions(s, questionnaire_id, question_order) ==
    /\ QuestionStart(s)
    /\ LET call == QuestionCall(s, "reorder", questionnaire_id, 0, 0,
                                question_order)
           question_ids == Range(question_order)
       IN  IF ~QuestionnaireFound(questionnaire_id, 1)
           THEN QuestionResponse(s, call, 404, questions)
           ELSE IF Cardinality(existing_questions(questions, questionnaire_id,
                                                  question_order))
                   # Cardinality(question_ids)
           THEN QuestionResponse(s, call, 400, questions)
           ELSE QuestionResponse(s, call, 200, set_order(questions, question_order))
    /\ QuestionFrame

\* the question ids requests name
QuestionIds == 1..MaxQuestionRequests

\* the order_index values of create and update requests
OrderIndexes == 0..2

\* the lists of reorder requests: one to three distinct ids (min_items=1)
QuestionOrders ==
    {order \in Orderings(1..3) : Len(order) >= 1}

CreateQuestion(s, indexes) ==
    \/ \E questionnaire_id \in DOMAIN questionnaires, order_index \in indexes :
          create_question_count(s, questionnaire_id, order_index)
    \/ create_question_insert(s)

\* question requests served one after the other
NextQuestions ==
    \/ CreateQuestion("s1", OrderIndexes)
    \/ \E question_id \in QuestionIds, order_index \in {-1} \cup OrderIndexes :
          update_question("s1", question_id, order_index)
    \/ \E question_id \in QuestionIds : delete_question("s1", question_id)
    \/ \E questionnaire_id \in DOMAIN questionnaires :
       \E question_order \in QuestionOrders :
          reorder_questions("s1", questionnaire_id, question_order)

SpecQuestions == Init /\ [][NextQuestions]_vars

\* questionnaire 1 holds one question less than the limit, with the
\* order_index values 0, 1, ... in the order of creation
InitQuestionLimit ==
    /\ InitStore
    /\ InitLimiter(TRUE, TRUE, default_limit, default_window_seconds)
    /\ InitGeneration
    /\ InitCalibration
    /\ InitPrograms
    /\ questions = {[id |-> i, questionnaire_id |-> 1, order_index |-> i - 1] :
                       i \in 1..(max_questions - 1)}
    /\ question_call = [s \in Sessions |-> NoQuestionCall]
    /\ question_requests = 0

\* create_question requests of two sessions
NextQuestionLimit ==
    \E s \in Sessions : CreateQuestion(s, {0, max_questions - 1})

SpecQuestionLimit == InitQuestionLimit /\ [][NextQuestionLimit]_vars

TypeOK ==
    /\ \A r \in ai_guidelines : r.id \in 1..Cardinality(ai_guidelines)
    /\ pc \in [Sessions -> STRING]
    /\ requests_started \in 0..MaxRequests

(***************************************************************************)
(* Properties of the guidelines store                                      *)
(***************************************************************************)
\* session s returns from its handler in this step
Returns(s) == InFlight(s) /\ pc'[s] = "done"

\* the request of s activates a version: save with is_active, or activate
Activating(s) == req[s].op = "activate" \/ (req[s].op = "save" /\ req[s].is_active)

Done(s) == pc[s] = "done"

\* C1: with the requests executed one after the other, in every state at
\* most one version number of a program has rows with is_active = true.
C1_AtMostOneActiveVersion ==
    \A p \in DOMAIN programs :
        Cardinality(ActiveVersions(ai_guidelines, p)) <= 1

C1_Witness ==
    \E p \in DOMAIN programs :
        /\ Cardinality(VersionsOf(ai_guidelines, p)) >= 2
        /\ Cardinality(ActiveVersions(ai_guidelines, p)) = 1
        /\ \E r \in ai_guidelines : r.program_id # p /\ r.is_active

\* C2: when the requests of two sessions interleave, then once they have all
\* returned no program has two versions active, and a program for which an
\* activate reported success does not have zero versions active.
C2_ConcurrentActivationKeepsOneActive ==
    (\A s \in Sessions : ~InFlight(s)) =>
        \A p \in DOMAIN programs :
            /\ Cardinality(ActiveVersions(ai_guidelines, p)) <= 1
            /\ (\E s \in Sessions :
                   /\ Done(s) /\ ret[s].success
                   /\ req[s].op = "activate" /\ req[s].program_id = p)
               => ActiveVersions(ai_guidelines, p) # {}

\* C3: when an activating request (save with is_active, or activate) returns
\* success, exactly one version of the program is active: the version the
\* save created or the activate named; every version active before is
\* inactive.
C3_ActivationLeavesExactlyItsVersion ==
    [][\A s \in Sessions :
          (Returns(s) /\ Activating(s) /\ ret'[s].success) =>
             LET p == req[s].program_id
                 v == ret'[s].version
             IN  /\ ActiveVersions(ai_guidelines', p) = {v}
                 /\ req[s].op = "activate" => v = req[s].version
                 /\ req[s].op = "save" =>
                       VersionsOf(ai_guidelines', p) \ VersionsOf(pre[s], p) = {v}
                 /\ \A w \in ActiveVersions(pre[s], p) \ {v} :
                       \A r \in ai_guidelines' :
                          (r.program_id = p /\ r.version = w) => ~r.is_active]_vars

C3_Witness ==
    \E s \in Sessions :
        /\ Done(s) /\ ret[s].success /\ req[s].op = "activate"
        /\ ActiveVersions(ai_guidelines, req[s].program_id) = {req[s].version}
        /\ req[s].version < Max(VersionsOf(ai_guidelines, req[s].program_id))

\* C4: activate_guidelines_version with a version the program does not have
\* returns success=false, with the version-not-found error unless a database
\* call raised, before any update statement, and leaves every row as it was.
C4_ActivateMissingVersionChangesNothing ==
    [][\A s \in Sessions :
          (/\ Returns(s)
           /\ req[s].op = "activate"
           /\ ProgramFound(req[s].program_id, req[s].organization_id)
           /\ req[s].version \notin VersionsOf(pre[s], req[s].program_id)) =>
             /\ ~ret'[s].success
             /\ ret'[s].error \in {"Version not found", "Failed to activate version"}
             /\ pc[s] \in {"activate_program", "activate_exists"}
             /\ tx[s] = NoUpdates
             /\ ai_guidelines' = pre[s]]_vars

C4_Witness ==
    \E s \in Sessions :
        /\ Done(s) /\ req[s].op = "activate"
        /\ ret[s] = Failure("Version not found")
        /\ ActiveVersions(ai_guidelines, req[s].program_id) # {}

\* C5: the k-th save_guidelines call of a program that returns success is
\* assigned version number k.
C5_KthSuccessfulSaveGetsVersionK ==
    [][\A s \in Sessions :
          (Returns(s) /\ req[s].op = "save" /\ ret'[s].success) =>
             ret'[s].version = saves_succeeded'[req[s].program_id]]_vars

\* C6: no two save_guidelines calls of a program are assigned the same
\* version number, so that a version number designates the category set of
\* exactly one save (one row per section).
C6_VersionDesignatesOneSave ==
    /\ \A s, t \in Sessions :
          (/\ s # t
           /\ Done(s) /\ req[s].op = "save" /\ ret[s].success
           /\ Done(t) /\ req[t].op = "save" /\ ret[t].success
           /\ req[s].program_id = req[t].program_id)
          => ret[s].version # ret[t].version
    /\ \A r, q \in ai_guidelines :
          (r.program_id = q.program_id /\ r.version = q.version
           /\ r.section = q.section) => r.id = q.id

\* C7: a save_guidelines call with is_active=false, successful or not, does
\* not change what get_active_guidelines returns for the program.
C7_DraftSaveKeepsActive ==
    [][\A s \in Sessions :
          (Returns(s) /\ req[s].op = "save" /\ ~req[s].is_active) =>
             \A target \in RequestTargets :
                get_active_guidelines(ai_guidelines', target[1], target[2])
                  = get_active_guidelines(pre[s], target[1], target[2])]_vars

C7_Witness ==
    \E s \in Sessions :
        /\ Done(s) /\ req[s].op = "save" /\ ~req[s].is_active /\ ret[s].success
        /\ get_active_guidelines(ai_guidelines, req[s].program_id,
                                 req[s].organization_id).found
        /\ ret[s].version >
              get_active_guidelines(ai_guidelines, req[s].program_id,
                                    req[s].organization_id).version

\* C8: a save_guidelines call that returns success=false leaves the stored
\* rows and their is_active flags exactly as they were before the call.
C8_FailedSaveLeavesRowsUnchanged ==
    [][\A s \in Sessions :
          (Returns(s) /\ req[s].op = "save" /\ ~ret'[s].success) =>
             ai_guidelines' = pre[s]]_vars

\* C9: no step of save_guidelines or activate_guidelines_version deletes a
\* stored row or changes a stored row's program, version, section, weight
\* or criteria; is_active is the only field of a stored row that changes.
C9_RowsOnlyChangeIsActive ==
    [][\A r \in ai_guidelines :
          \E q \in ai_guidelines' :
             q.id = r.id /\ [q EXCEPT !.is_active = r.is_active] = r]_vars

C9_Witness ==
    \E s \in Sessions :
        /\ Done(s) /\ req[s].op = "activate" /\ ret[s].success
        /\ \E r, q \in ai_guidelines :
              /\ r.program_id = q.program_id
              /\ r.version = req[s].version /\ r.is_active
              /\ q.version > r.version /\ ~q.is_active

\* C10: when save_guidelines(g, is_active=true) returns success,
\* get_active_guidelines returns the version the save returned and the
\* categories of g; for a program without active rows it returns none.
C10_ActiveGuidelinesAreTheSavedOnes ==
    [][/\ \A s \in Sessions :
            (Returns(s) /\ req[s].op = "save" /\ req[s].is_active
             /\ ret'[s].success) =>
               LET active == get_active_guidelines(ai_guidelines',
                                 req[s].program_id, req[s].organization_id)
               IN  /\ active.found
                   /\ active.version = ret'[s].version
                   /\ Len(active.categories) = Len(req[s].guidelines)
                   /\ Range(active.categories) = Range(req[s].guidelines)
       /\ \A target \in RequestTargets :
            ActiveVersions(ai_guidelines', target[1]) = {} =>
               get_active_guidelines(ai_guidelines', target[1], target[2])
                 = NoGuidelines]_vars

C10_Witness ==
    \E s \in Sessions :
        /\ Done(s) /\ req[s].op = "save" /\ req[s].is_active /\ ret[s].success
        /\ req[s].guidelines = GuidelinesB
        /\ get_active_guidelines(ai_guidelines, req[s].program_id,
                                 req[s].organization_id).version = ret[s].version
        /\ ret[s].version >= 2

\* C11: get_guidelines_history returns every saved version of the program
\* exactly once, ordered by version number descending, each entry carrying
\* that version's is_active flag; its active_version is the number of the
\* active version, or none (0) when no version is active.
C11_HistoryListsVersionsNewestFirst ==
    \A program_id \in DOMAIN programs :
        LET history == get_guidelines_history(ai_guidelines, program_id,
                                              programs[program_id])
            listed == history.guidelines
        IN  /\ history.success
            /\ {listed[k].version : k \in DOMAIN listed}
                 = VersionsOf(ai_guidelines, program_id)
            /\ \A k \in DOMAIN listed :
                  /\ k > 1 => listed[k - 1].version > listed[k].version
                  /\ listed[k].is_active
                       <=> listed[k].version \in ActiveVersions(ai_guidelines, program_id)
            /\ IF ActiveVersions(ai_guidelines, program_id) = {}
               THEN history.active_version = 0
               ELSE ActiveVersions(ai_guidelines, program_id)
                      = {history.active_version}

C11_Witness ==
    \E program_id \in DOMAIN programs :
        LET history == get_guidelines_history(ai_guidelines, program_id,
                                              programs[program_id])
        IN  /\ Len(history.guidelines) >= 3
            /\ history.active_version = 2
            /\ ~history.guidelines[1].is_active
            /\ history.guidelines[2].is_active

(***************************************************************************)
(* Properties of the rate limiter                                          *)
(***************************************************************************)
\* the checks of rate_log before check i that were made with i's key
\* inside the window that ends at check i
ChecksInWindow(i) ==
    {j \in 1..(i - 1) : /\ rate_log[j].key = rate_log[i].key
                        /\ rate_log[j].time > rate_log[i].time - rate_window}

\* no check made so far raised or met a failure of the backing store
NoCheckFailed ==
    \A i \in DOMAIN rate_log :
        ~rate_log[i].result.raised /\ ~rate_log[i].result.failed

\* C13: for any key, limit L and window W, with Redis and in memory: the
\* first L checks made inside one window are allowed, the next check inside
\* that window is denied with remaining = 0, and a check made after the
\* window has elapsed since the recorded requests is allowed again.
C13_SlidingWindowAllowsLThenDenies ==
    NoCheckFailed =>
       \A i \in DOMAIN rate_log :
          LET allowed_before ==
                  {j \in ChecksInWindow(i) : rate_log[j].result.allowed}
          IN  /\ Cardinality(ChecksInWindow(i)) < rate_limit
                   => rate_log[i].result.allowed
              /\ (/\ Cardinality(ChecksInWindow(i)) = rate_limit
                  /\ allowed_before = ChecksInWindow(i))
                   => /\ ~rate_log[i].result.allowed
                      /\ rate_log[i].result.remaining = 0
              /\ allowed_before = {} => rate_log[i].result.allowed

\* C14: a check_rate_limit call that is denied records nothing: apart from
\* the purge of the entries older than the window, the recorded timestamps
\* of the key are the same after the denied check as before it, with Redis
\* and in memory, also when an allowed request was recorded at the same
\* timestamp.
C14_DeniedCheckRecordsNothing ==
    [][\A key \in Keys :
          (/\ Len(rate_log') = Len(rate_log) + 1
           /\ rate_log'[Len(rate_log')].key = key
           /\ ~rate_log'[Len(rate_log')].result.allowed
           /\ ~rate_log'[Len(rate_log')].result.raised) =>
             IF redis_client = "connected"
             THEN redis_zsets'[key] =
                     {m \in live_zset(redis_zsets[key], redis_expires[key], clock) :
                         m.score > clock - rate_window}
             ELSE memory_store'.lists[key] =
                     SelectSeq(memory_store.lists[key],
                               LAMBDA timestamp : timestamp > clock - rate_window)]_vars

\* C15: check_rate_limit always returns a result and never raises, whether
\* Redis is not configured, the connection failed at construction, or Redis
\* fails during the check; when the store fails during the check the
\* result has allowed = true.
C15_CheckNeverRaises ==
    \A i \in DOMAIN rate_log :
        /\ ~rate_log[i].result.raised
        /\ rate_log[i].result.failed => rate_log[i].result.allowed

(***************************************************************************)
(* Properties of guidelines generation                                     *)
(***************************************************************************)
RECURSIVE WeightSum(_)
\* the sum of the weights of a list of categories
WeightSum(categories) ==
    IF Len(categories) = 0
    THEN 0
    ELSE categories[1].weight + WeightSum(Tail(categories))

\* C12: for every generation that returns success=true the weights of the
\* returned categories sum to 1.0 within 0.01 and each weight lies in
\* [0,1]; a reply whose weights sum to another value is rejected.
C12_GeneratedWeightsSumToOne ==
    /\ generated.response.success =>
          /\ 100 * WeightSum(generated.response.guidelines) \in 99..101
          /\ \A i \in DOMAIN generated.response.guidelines :
                generated.response.guidelines[i].weight \in 0..1
    /\ (/\ generated.reply.kind = "json"
        /\ WeightSum(generated.reply.categories) \notin 99..101)
          => ~generated.response.success

\* C16: generation checks the organization's rate limit before it calls
\* the LLM: once the organization has used up its quota inside the window,
\* no further upstream request is sent for it.
C16_NoUpstreamRequestBeyondQuota ==
    \A organization_id \in DOMAIN upstream_requests :
        upstream_requests[organization_id] <= rate_limit_requests

\* C17: of two consecutive successful generation calls with the same
\* calibration answers and model, the second is answered without an
\* upstream request and returns cached=true; a result obtained from
\* upstream returns cached=false.
C17_RepeatedGenerationIsTaggedCached ==
    /\ (/\ generated.response.success
        /\ generated.fault = "none"
        /\ generated.previous_key = generated.cache_key)
          => ~generated.sent /\ generated.response.cached
    /\ (generated.response.success /\ generated.sent)
          => ~generated.response.cached

\* C18: a generation result is stored in the cache only after it has
\* passed structural validation: no cache entry holds a reply that fails
\* validation.
C18_CacheHoldsOnlyValidatedResults ==
    \A cache_key \in DOMAIN guidelines_cache :
        generated_data_valid(guidelines_cache[cache_key])

\* C19: a failure of the cache backend never makes a generation request
\* fail: with an error while reading the entry or while writing it, a call
\* that gets a valid reply from upstream returns it with success=true.
C19_CacheFailureDoesNotFailGeneration ==
    (/\ generated.fault \in {"get_error", "setex_error"}
     /\ generated.sent
     /\ generated.reply.kind = "json"
     /\ generated_data_valid(generated.reply))
       => generated.response.success

(***************************************************************************)
(* Tenant isolation                                                        *)
(***************************************************************************)
\* the program ids organization_id does not own: another organization's
\* program (2 for organization 1) and an id without a program (3)
NotOwned(program_id, organization_id) ==
    program_id \notin DOMAIN programs \/ programs[program_id] # organization_id

\* the cache statistics a status call may be given
CacheStats == {NoCacheStats,
               [total_entries |-> 1, valid_entries |-> 1, expired_entries |-> 0]}

\* C20: for each guidelines operation (generate, save, history, get
\* active, activate, status) the result organization 1 gets for program 2
\* of organization 2 is the result it gets for the program id 3 that does
\* not exist, and the operation changes no stored guideline row and sends
\* no upstream request.
C20_ForeignProgramLooksNonexistent ==
    [][/\ \A s \in Sessions :
            (Returns(s) /\ NotOwned(req[s].program_id, req[s].organization_id)) =>
               /\ ai_guidelines' = pre[s]
               /\ ret'[s] \in
                     {Failure("Program not found or access denied"),
                      Failure(IF req[s].op = "save"
                              THEN "Failed to save guidelines"
                              ELSE "Failed to activate version")}
       /\ (/\ generated' # generated
           /\ NotOwned(generated'.program_id, generated'.organization_id)) =>
               /\ generated'.response =
                     GenerationFailure("Program not found or access denied")
               /\ ~generated'.sent
               /\ UNCHANGED <<ai_guidelines, upstream_requests, guidelines_cache>>
       /\ get_guidelines_history(ai_guidelines', 2, 1)
             = get_guidelines_history(ai_guidelines', 3, 1)
       /\ get_active_guidelines(ai_guidelines', 2, 1)
             = get_active_guidelines(ai_guidelines', 3, 1)
       /\ \A cache_stats \in CacheStats :
             get_guidelines_status(ai_guidelines', 2, 1, cache_stats)
                = get_guidelines_status(ai_guidelines', 3, 1, cache_stats)]_vars

C20_Witness ==
    /\ Done("s1") /\ req["s1"].op = "save"
    /\ req["s1"].program_id = 2 /\ req["s1"].organization_id = 1
    /\ ret["s1"] = Failure("Program not found or access denied")
    /\ generated.program_id = 3
    /\ generated.response = GenerationFailure("Program not found or access denied")
    /\ get_guidelines_history(ai_guidelines, 2, 2).active_version = 1
    /\ get_guidelines_history(ai_guidelines, 1, 1).success
    /\ \E a \in calibration_answers : a.program_id = 2

\* C21: a generation request for a program without calibration answers is
\* answered success=false with the no-calibration-data error (when the
\* program is the caller's), and it sends no upstream request, records no
\* rate-limit entry and leaves the cache as it was; an upstream request is
\* sent only for a program that has at least one answer
C21_NoCalibrationNoUpstreamRequest ==
    [][calibration_answers' = calibration_answers =>
          LET answered == \E a \in calibration_answers :
                             a.program_id = generated'.program_id
          IN  /\ upstream_requests' # upstream_requests => answered
              /\ generated'.sent => answered
              /\ ~answered =>
                    /\ ~generated'.response.success
                    /\ upstream_requests' = upstream_requests
                    /\ guidelines_cache' = guidelines_cache
                    /\ rate_log' = rate_log
                    /\ redis_zsets' = redis_zsets
                    /\ memory_store' = memory_store
                    /\ ~NotOwned(generated'.program_id,
                                 generated'.organization_id) =>
                          generated'.response.error =
                             "No calibration data found. Please complete calibration first."]_vars

\* organization 1 asked for guidelines of its program 1 before answering
\* any calibration question
C21_Witness ==
    /\ generated.program_id = 1
    /\ generated.organization_id = 1
    /\ ~generated.sent
    /\ generated.response.error =
          "No calibration data found. Please complete calibration first."
    /\ \A a \in calibration_answers : a.program_id # 1

(***************************************************************************)
(* Properties of the calibration answers                                   *)
(***************************************************************************)
\* C22: whatever create_or_update_answer, batch_create_or_update_answers
\* and delete_answer calls have run, concurrent ones included, every
\* program holds at most one calibration answer for each question_key
C22_OneAnswerPerQuestionKey ==
    \A a \in calibration_answers :
        Cardinality(matching_answers(calibration_answers, a.program_id,
                                     a.question_key)) <= 1

\* C30: a batch request that was rejected (one of its answers has an
\* unknown question key or an invalid format) has created or updated no
\* answer: the calibration answers are those the request found
C30_RejectedBatchChangesNothing ==
    \A s \in Sessions :
        (/\ calibration_call[s].pc = "done"
         /\ calibration_call[s].op = "batch"
         /\ calibration_call[s].raised # "") =>
            calibration_answers = calibration_call[s].before

\* C28: given the same sequence of check_rate_limit calls, the instance
\* backed by Redis and the instance backed by the in-memory store return
\* the same allowed, remaining and reset_time at every call
C28_RedisAndMemoryAgree ==
    \A i \in DOMAIN rate_log :
        /\ rate_log[i].result.allowed = rate_log[i].memory_result.allowed
        /\ rate_log[i].result.remaining = rate_log[i].memory_result.remaining
        /\ rate_log[i].result.reset_time = rate_log[i].memory_result.reset_time

\* C29: a program that has an active guidelines version has exactly one
\* active version after every step of save_guidelines and
\* activate_guidelines_version, whether the call succeeds or fails
C29_ActiveVersionIsNeverLost ==
    [][\A p \in DOMAIN programs :
          ActiveVersions(ai_guidelines, p) # {} =>
             Cardinality(ActiveVersions(ai_guidelines', p)) = 1]_vars

\* an activation failed for a program that has two versions, and the
\* program still has its one active version
C29_Witness ==
    \E s \in Sessions :
        /\ Done(s) /\ req[s].op = "activate" /\ ~ret[s].success
        /\ ProgramFound(req[s].program_id, req[s].organization_id)
        /\ Cardinality(VersionsOf(ai_guidelines, req[s].program_id)) >= 2
        /\ Cardinality(ActiveVersions(ai_guidelines, req[s].program_id)) = 1

(***************************************************************************)
(* Properties of the programs                                              *)
(***************************************************************************)
\* C23: whatever create_program, update_program, delete_program,
\* activate_program and duplicate_program calls have run, no two active
\* programs of the same organization have the same name
C23_ActiveProgramNamesAreUnique ==
    \A r, q \in program_table :
        (/\ r.organization_id = q.organization_id
         /\ r.name = q.name
         /\ r.is_active /\ q.is_active) => r.id = q.id

(***************************************************************************)
(* Properties of the questions                                             *)
(***************************************************************************)
\* C24: whatever create_question requests have run, two concurrent ones at
\* 49 questions included, a questionnaire holds at most 50 questions, and
\* a create that finds 50 is rejected
C24_AtMostFiftyQuestions ==
    \A questionnaire_id \in DOMAIN questionnaires :
        question_count(questions, questionnaire_id) <= max_questions

\* the order_index values of the questionnaire's n questions are exactly
\* 0..n-1, each used by one question
Contiguous(rows, questionnaire_id) ==
    \A i \in 0..(question_count(rows, questionnaire_id) - 1) :
        Cardinality({r \in questions_of(rows, questionnaire_id) :
                        r.order_index = i}) = 1

\* the ids of the questionnaire's questions
IdsOf(rows, questionnaire_id) ==
    {r.id : r \in questions_of(rows, questionnaire_id)}

\* the list without the id
Without(order, id) == SelectSeq(order, LAMBDA x : x # id)

\* the lists get_questions can return, each without the id
OthersInOrder(rows, questionnaire_id, id) ==
    {Without(order, id) : order \in get_questions(rows, questionnaire_id)}

\* C25: after a successful reorder request whose list holds exactly the
\* ids of the questionnaire's questions, the question at list position k
\* (counted from 0) has order_index k and get_questions returns the
\* questions in the order of the list; a request that names an id that
\* does not belong to the questionnaire is rejected and leaves every
\* order_index as it was
C25_ReorderSetsTheRequestedOrder ==
    \A s \in Sessions :
        LET call == question_call[s]
            owned == IdsOf(call.before, call.questionnaire_id)
        IN  (call.op = "reorder" /\ call.pc = "idle") =>
              /\ (call.status = 200 /\ Range(call.question_order) = owned) =>
                    /\ \A k \in DOMAIN call.question_order :
                          \E r \in questions_of(questions, call.questionnaire_id) :
                             r.id = call.question_order[k] /\ r.order_index = k - 1
                    /\ get_questions(questions, call.questionnaire_id)
                          = {call.question_order}
              /\ (Range(call.question_order) \ owned # {}) =>
                    /\ call.status # 200
                    /\ questions = call.before

\* a reorder of all the questions of a questionnaire that changed their
\* order
C25_Witness ==
    \E s \in Sessions :
        LET call == question_call[s]
        IN  /\ call.op = "reorder" /\ call.pc = "idle" /\ call.status = 200
            /\ Len(call.question_order) >= 2
            /\ Range(call.question_order) = IdsOf(call.before, call.questionnaire_id)
            /\ call.question_order \notin get_questions(call.before, call.questionnaire_id)
            /\ call.question_order \in get_questions(questions, call.questionnaire_id)

\* C26: whatever create_question, update_question, delete_question and
\* reorder_questions requests have run, the order_index values of a
\* questionnaire's n questions are exactly 0..n-1, each used once
C26_OrderIndexesAreContiguous ==
    \A questionnaire_id \in DOMAIN questionnaires :
        (\A s \in Sessions : question_call[s].pc = "idle") =>
            Contiguous(questions, questionnaire_id)

\* C27: on a questionnaire whose order_index values are exactly 0..n-1,
\* delete_question leaves the values exactly 0..n-2, update_question with
\* an order_index j leaves them exactly 0..n-1 with the moved question at
\* min(j, n-1), and both leave the other questions in their order
C27_DeleteAndMoveKeepTheOrder ==
    \A s \in Sessions :
        LET call == question_call[s]
            n == question_count(call.before, call.questionnaire_id)
        IN  (/\ call.pc = "idle" /\ call.status = 200
             /\ Contiguous(call.before, call.questionnaire_id)) =>
              /\ call.op = "delete" =>
                    /\ question_count(questions, call.questionnaire_id) = n - 1
                    /\ Contiguous(questions, call.questionnaire_id)
                    /\ get_questions(questions, call.questionnaire_id)
                          = OthersInOrder(call.before, call.questionnaire_id,
                                          call.question_id)
              /\ (call.op = "update" /\ call.order_index # -1) =>
                    /\ question_count(questions, call.questionnaire_id) = n
                    /\ Contiguous(questions, call.questionnaire_id)
                    /\ \E r \in questions :
                          /\ r.id = call.question_id
                          /\ r.order_index = IF call.order_index < n - 1
                                             THEN call.order_index ELSE n - 1
                    /\ OthersInOrder(questions, call.questionnaire_id,
                                     call.question_id)
                          = OthersInOrder(call.before, call.questionnaire_id,
                                          call.question_id)

\* the first of three questions was moved with an order_index past the
\* end and is now the last
C27_Witness ==
    \E s \in Sessions :
        LET call == question_call[s]
        IN  /\ call.op = "update" /\ call.pc = "idle" /\ call.status = 200
            /\ Contiguous(call.before, call.questionnaire_id)
            /\ question_count(call.before, call.questionnaire_id) = 3
            /\ \E r \in call.before : r.id = call.question_id /\ r.order_index = 0
            /\ call.order_index = 2
            /\ \E r \in questions : r.id = call.question_id /\ r.order_index = 2

====
